---- MODULE Spec2Model ----
(***************************************************************************)
(* bevy_vulkano: per-frame GPU synchronisation and window lifecycle.       *)
(*                                                                         *)
(* Two state machines are modelled:                                        *)
(*   Spec      - the winit runner (src/src/lib.rs), the window map, the    *)
(*               per-window Renderer (src/src/vulkano_renderer.rs), the    *)
(*               PipelineData registry and the staged render systems of    *)
(*               examples/circle/render_system_plugin/mod.rs.              *)
(*   SpecFrame - one Frame of examples/circle/render_pass/deferred.rs      *)
(*               driven by an arbitrary caller.                            *)
(*                                                                         *)
(* Option<T> is a sequence of length 0 (None) or 1 (Some).  A GPU future   *)
(* is the sequence of the operations that built it.  HashMaps are          *)
(* functions whose DOMAIN is the key set.                                  *)
(***************************************************************************)
EXTENDS Integers, Sequences, FiniteSets, TLC

\* ------------------------------------------------------------------ bounds
\* highest secondary window id (window 0 is the primary window)
MaxWin == 1
\* window events queued between two app updates
MaxEvents == 2
\* distinct swapchain creations told apart (creation ids are reused cyclically)
NumCreations == 2
\* images of a swapchain (caps.min_image_count)
NumImages == 2
\* calls of Frame::next_pass on one frame
MaxCalls == 258
\* secondary command buffers appended to one primary command buffer
MaxCmds == 1
\* physical devices PhysicalDevice::enumerate yields
MaxDevices == 3
\* queue families of a physical device
MaxFamilies == 2
\* video modes a monitor reports
MaxModes == 3

\* ------------------------------------------------------- program constants
\* num_pass is a u8
U8Modulus == 256

PrimaryId == 0
WindowIds == 0 .. MaxWin

\* ------------------------------------------------------------------ Option
None == << >>
Some(x) == << x >>
IsSome(o) == o # << >>
Unwrap(o) == o[1]

\* ----------------------------------------------------------------- HashMap
EmptyMap == [x \in {} |-> 0]
MapInsert(m, k, v) == [x \in (DOMAIN m) \cup {k} |-> IF x = k THEN v ELSE m[x]]
MapRemove(m, k) == [x \in (DOMAIN m) \ {k} |-> m[x]]

\* ------------------------------------------------------------- GPU futures
\* sync::now(device): an already completed future
NowFuture == << "now" >>
\* previous_frame_end.join(acquire_future)
JoinFuture(prev, acquire) == << "join_acquire" >>
\* before.then_execute(gfx_queue, command_buffer)
ThenExecute(before, queue) == Append(before, "then_execute_" \o queue)
\* future.then_signal_fence_and_flush()
FenceFlush(f) == Append(f, "fence_flush")
\* after.then_swapchain_present(..).then_signal_fence_and_flush(), waited on
PresentFuture(waited) == << "present", IF waited THEN "waited" ELSE "wait_failed" >>

VARIABLES
    pc,                             \* position of the runner / scheduler
    control_flow,                   \* winit ControlFlow set by the event handler
    app_exit,                       \* an AppExit event has been sent
    windows,                        \* VulkanoWinitWindows.windows: id -> Renderer
    window_id_to_winit,             \* ids that map to a winit window id
    frame_data,                     \* PipelineData.frame_data: id -> PipelineFrameData
    create_window_events,           \* Events<CreateWindow> not yet read
    window_created_events,          \* Events<WindowCreated> not yet read
    window_resized_events,          \* Events<WindowResized> not yet read
    window_close_requested_events,  \* Events<WindowCloseRequested> not yet read
    systems_run,                    \* PreUpdate systems already run in this update
    changed_window_ids,             \* update_on_resize_system's list of its last run
    close_iter,                     \* exit_on_window_close_system: events left to handle
    close_pos,                      \* exit_on_window_close_system: position in the loop body
    todo,                           \* render systems: registry keys left to iterate
    panic_msg,                      \* message of the panic that ended the process
    frame,                          \* SpecFrame: Option<Frame>
    calls,                          \* SpecFrame: next_pass calls made on the frame
    last_pass,                      \* SpecFrame: result of the last next_pass call
    finished_at,                    \* SpecFrame: index of the call that yielded Finished
    before_given,                   \* SpecFrame: token handed to RenderPassDeferred::frame
    submissions,                    \* SpecFrame: times the frame took its before token
    had_err,                        \* SpecFrame: a next_pass call on the frame returned Err
    overflow_checks,                \* SpecFrame: build profile (debug: TRUE, release: FALSE)
    frame_panicked,                 \* SpecFrame: the caller's thread panicked
    started,                        \* start_frame calls of this frame: id -> call record
    finished,                       \* finish_frame calls of this frame: id -> call record
    rendered,                       \* ids main_render_system has rendered in this frame
    in_flight,                      \* ids whose acquired frame finish_frame has not been given
    closed_windows,                 \* ids whose close exit_on_window_close_system handled
    physical_devices,               \* PhysicalDevice::enumerate: device types in order
    physical_device,                \* Option: index of the device min_by_key selected
    queue_families,                 \* physical.queue_families() of the selected device
    context,                        \* Option: what create_device returned
    ctx_pc,                         \* position in VulkanoContext::new / Renderer::new
    video_modes,                    \* monitor.video_modes() in enumeration order
    requested,                      \* width and height asked of get_fitting_videomode
    fitting_mode,                   \* Option: mode get_fitting_videomode returned
    best_mode,                      \* Option: mode get_best_videomode returned
    active,                         \* the runner's `active` flag (Suspended / Resumed)
    window_entities,                \* entities that carry a Window component
    removed_windows,                \* RemovedComponents<Window> not yet read
    closed,                         \* what despawn_window's last run read from `closed`
    created_windows,                \* the created_windows of create_window's last run
    entity_to_winit,                \* BevyVulkanoWindows.entity_to_winit
    winit_to_entity,                \* BevyVulkanoWindows.winit_to_entity
    winit_windows,                  \* BevyVulkanoWindows.windows: winit id -> renderer
    native_built,                   \* entity -> native windows built for it so far
    created_sent,                   \* entity -> WindowCreated events sent for it
    closed_sent,                    \* entity -> WindowClosed events sent for it
    COUNTER,                        \* the static AtomicUsize of create_image_texture_id
    image_textures,                 \* renderer -> its image_textures map
    caller,                         \* caller -> the texture call it is in
    handed_out,                     \* ids create_image_texture_id has returned, in order
    overwritten                     \* entries an add_image_texture of an add call replaced

loopVars == << pc, control_flow, app_exit, windows, window_id_to_winit, frame_data,
               create_window_events, window_created_events, window_resized_events,
               window_close_requested_events, systems_run, changed_window_ids,
               close_iter, close_pos, todo, panic_msg >>
frameVars == << frame, calls, last_pass, finished_at, before_given, submissions,
                had_err, overflow_checks, frame_panicked >>
obsVars == << started, finished, rendered, in_flight, closed_windows >>
ctxVars == << physical_devices, physical_device, queue_families, context, ctx_pc >>
videoVars == << video_modes, requested, fitting_mode, best_mode >>
suspendVars == << active >>
entityVars == << window_entities, removed_windows, closed, created_windows,
                 entity_to_winit, winit_to_entity,
                 winit_windows, native_built, created_sent, closed_sent >>
textureVars == << COUNTER, image_textures, caller, handed_out, overwritten >>
sideVars == << suspendVars, entityVars, textureVars >>
pureVars == << ctxVars, videoVars, sideVars >>
vars == << loopVars, frameVars, obsVars, pureVars >>

\* ---------------------------------------------------------------- Renderer
\* Renderer::new: image_index 0, recreate_swapchain false, previous_frame_end
\* Some(now); swap_chain and final_views name the creation they come from
NewRenderer ==
    [ swap_chain |-> 0, final_views |-> 0, image_index |-> 0,
      recreate_swapchain |-> FALSE, previous_frame_end |-> Some(NowFuture),
      interim_image_views |-> EmptyMap ]

\* mutant of Resize: the swapchain is recreated at once
ResizeRecreatesNow(r) ==
    [r EXCEPT !.swap_chain = (@ + 1) % NumCreations,
              !.final_views = (r.swap_chain + 1) % NumCreations,
              !.recreate_swapchain = FALSE]

\* Renderer::resize
Resize(r) == [r EXCEPT !.recreate_swapchain = TRUE]

\* results of self.swap_chain.recreate().dimensions(..).build()
RecreateOutcomes == {"ok", "unsupported_dimensions", "error"}

\* the body of Renderer::add_image_target on the map of targets: the image is
\* created at view_size, or at final_image_size() when none is given, and
\* stored with the flag view_size.is_none()
InsertImageTarget(views, key, view_size, format, final_size) ==
    MapInsert(views, key,
              [size |-> IF IsSome(view_size) THEN Unwrap(view_size) ELSE final_size,
               follow_swapchain |-> ~IsSome(view_size),
               format |-> format])

\* Renderer::add_image_target; final_image_size() is the size of the creation
\* final_views comes from
AddImageTarget(r, key, view_size, format) ==
    [r EXCEPT !.interim_image_views =
                 InsertImageTarget(@, key, view_size, format, r.final_views)]

\* Renderer::remove_image_target
RemoveImageTarget(r, key) ==
    [r EXCEPT !.interim_image_views = MapRemove(@, key)]

\* `for i in resizable_views { format; remove_image_target(i);
\* add_image_target(i, None, format) }`, in the arbitrary order of the HashMap
RECURSIVE RecreateResizable(_, _, _)
RecreateResizable(views, keys, final_size) ==
    IF keys = {} THEN views
    ELSE LET i == CHOOSE k \in keys : TRUE
             format == views[i].format
         IN  RecreateResizable(
                 InsertImageTarget(MapRemove(views, i), i, None, format, final_size),
                 keys \ {i}, final_size)

\* mutant of RecreateTargets: the filter on follow_swapchain is left out
RecreateTargetsUnfiltered(views, created) ==
    RecreateResizable(views, DOMAIN views, created)

\* the interim image targets that follow the swapchain are re-created at the
\* size of the new creation: resizable_views and the loop over it
RecreateTargets(views, created) ==
    RecreateResizable(views, {k \in DOMAIN views : views[k].follow_swapchain}, created)

\* mutant of RecreateSwapchainAndViews: the flag is cleared although the
\* dimensions are unsupported
RecreateClearsFlagOnUnsupported(r, rec) ==
    IF rec = "unsupported_dimensions"
    THEN [renderer |-> [r EXCEPT !.recreate_swapchain = FALSE], panic |-> FALSE]
    ELSE IF rec = "error" THEN [renderer |-> r, panic |-> TRUE]
    ELSE LET created == (r.swap_chain + 1) % NumCreations
         IN  [renderer |-> [r EXCEPT !.swap_chain = created,
                                     !.final_views = created,
                                     !.interim_image_views = RecreateTargets(@, created),
                                     !.recreate_swapchain = FALSE],
              panic |-> FALSE]

\* mutant of RecreateSwapchainAndViews: the image views are not replaced
RecreateSwapchainOnly(r, rec) ==
    IF rec = "unsupported_dimensions" THEN [renderer |-> r, panic |-> FALSE]
    ELSE IF rec = "error" THEN [renderer |-> r, panic |-> TRUE]
    ELSE [renderer |-> [r EXCEPT !.swap_chain = (@ + 1) % NumCreations,
                                 !.recreate_swapchain = FALSE],
          panic |-> FALSE]

\* mutant of RecreateSwapchainAndViews: the dirty flag is left set after the
\* swapchain and the views were replaced
RecreateLeavesFlag(r, rec) ==
    IF rec = "unsupported_dimensions" THEN [renderer |-> r, panic |-> FALSE]
    ELSE IF rec = "error" THEN [renderer |-> r, panic |-> TRUE]
    ELSE LET created == (r.swap_chain + 1) % NumCreations
         IN  [renderer |-> [r EXCEPT !.swap_chain = created,
                                     !.final_views = created,
                                     !.interim_image_views = RecreateTargets(@, created)],
              panic |-> FALSE]

\* Renderer::recreate_swapchain_and_views; [renderer, panic]
RecreateSwapchainAndViews(r, rec) ==
    IF rec = "unsupported_dimensions" THEN [renderer |-> r, panic |-> FALSE]
    ELSE IF rec = "error" THEN [renderer |-> r, panic |-> TRUE]
    ELSE LET created == (r.swap_chain + 1) % NumCreations
         IN  [renderer |-> [r EXCEPT !.swap_chain = created,
                                     !.final_views = created,
                                     !.interim_image_views = RecreateTargets(@, created),
                                     !.recreate_swapchain = FALSE],
              panic |-> FALSE]

\* results of swapchain::acquire_next_image
AcquireOutcomes ==
    [kind : {"ok"}, image_num : 0 .. (NumImages - 1), suboptimal : BOOLEAN]
    \cup [kind : {"out_of_date", "error"}, image_num : {0}, suboptimal : {FALSE}]

\* acquired_from is the swapchain handed to acquire_next_image, which the
\* acquisition leaves in the renderer
StartResult(r, outcome, token, msg) ==
    [renderer |-> r, outcome |-> outcome, token |-> token, msg |-> msg,
     acquired_from |-> r.swap_chain]

\* mutant of AcquireNextImage: image_index is not updated
AcquireNextImageKeepsIndex(r, acq) ==
    IF acq.kind = "out_of_date"
    THEN StartResult([r EXCEPT !.recreate_swapchain = TRUE], "Err", None, "")
    ELSE IF acq.kind = "error"
    THEN StartResult(r, "Panic", None, "Failed to acquire next image")
    ELSE LET r2 == [r EXCEPT !.recreate_swapchain = (@ \/ acq.suboptimal)]
         IN  IF ~IsSome(r2.previous_frame_end)
             THEN StartResult(r2, "Panic", None, "unwrap on None: previous_frame_end")
             ELSE StartResult([r2 EXCEPT !.previous_frame_end = None], "Ok",
                              Some(JoinFuture(Unwrap(r2.previous_frame_end), acq.image_num)),
                              "")

\* mutant of AcquireNextImage: a suboptimal acquisition does not set the flag
AcquireNextImageIgnoresSuboptimal(r, acq) ==
    IF acq.kind = "out_of_date"
    THEN StartResult([r EXCEPT !.recreate_swapchain = TRUE], "Err", None, "")
    ELSE IF acq.kind = "error"
    THEN StartResult(r, "Panic", None, "Failed to acquire next image")
    ELSE LET r2 == [r EXCEPT !.image_index = acq.image_num]
         IN  IF ~IsSome(r2.previous_frame_end)
             THEN StartResult(r2, "Panic", None, "unwrap on None: previous_frame_end")
             ELSE StartResult([r2 EXCEPT !.previous_frame_end = None], "Ok",
                              Some(JoinFuture(Unwrap(r2.previous_frame_end), acq.image_num)),
                              "")

\* mutant of AcquireNextImage: previous_frame_end is taken before the image is
\* acquired
AcquireNextImageTakesFirst(r, acq) ==
    IF ~IsSome(r.previous_frame_end)
    THEN StartResult(r, "Panic", None, "unwrap on None: previous_frame_end")
    ELSE LET r1 == [r EXCEPT !.previous_frame_end = None]
         IN  IF acq.kind = "out_of_date"
             THEN StartResult([r1 EXCEPT !.recreate_swapchain = TRUE], "Err", None, "")
             ELSE IF acq.kind = "error"
             THEN StartResult(r1, "Panic", None, "Failed to acquire next image")
             ELSE StartResult([r1 EXCEPT !.recreate_swapchain = (@ \/ acq.suboptimal),
                                         !.image_index = acq.image_num],
                              "Ok",
                              Some(JoinFuture(Unwrap(r.previous_frame_end), acq.image_num)),
                              "")

\* Renderer::start_frame from `// Acquire next image in the swapchain` on
AcquireNextImage(r, acq) ==
    IF acq.kind = "out_of_date"
    THEN StartResult([r EXCEPT !.recreate_swapchain = TRUE], "Err", None, "")
    ELSE IF acq.kind = "error"
    THEN StartResult(r, "Panic", None, "Failed to acquire next image")
    ELSE LET r2 == [r EXCEPT !.recreate_swapchain = (@ \/ acq.suboptimal),
                             !.image_index = acq.image_num]
         IN  IF ~IsSome(r2.previous_frame_end)
             THEN StartResult(r2, "Panic", None, "unwrap on None: previous_frame_end")
             ELSE StartResult([r2 EXCEPT !.previous_frame_end = None], "Ok",
                              Some(JoinFuture(Unwrap(r2.previous_frame_end), acq.image_num)),
                              "")

\* mutant of StartFrame: the image is acquired before the swapchain is
\* recreated
StartFrameAcquiresFirst(r, rec, acq) ==
    LET a == AcquireNextImage(r, acq)
        rc == IF r.recreate_swapchain
              THEN RecreateSwapchainAndViews(a.renderer, rec)
              ELSE [renderer |-> a.renderer, panic |-> FALSE]
    IN  IF a.outcome # "Ok" THEN a
        ELSE IF rc.panic
        THEN StartResult(rc.renderer, "Panic", None, "Failed to recreate swapchain")
        ELSE [a EXCEPT !.renderer = rc.renderer]

\* Renderer::start_frame; [renderer, outcome, token, msg] with outcome
\* "Ok" (token is Some), "Err" (AcquireError::OutOfDate) or "Panic"
StartFrame(r, rec, acq) ==
    LET rc == IF r.recreate_swapchain
              THEN RecreateSwapchainAndViews(r, rec)
              ELSE [renderer |-> r, panic |-> FALSE]
    IN  IF rc.panic
        THEN StartResult(rc.renderer, "Panic", None, "Failed to recreate swapchain")
        ELSE AcquireNextImage(rc.renderer, acq)

\* results of then_swapchain_present(..).then_signal_fence_and_flush() and of
\* the wait on the fence
FlushOutcomes == {"ok", "ok_wait_failed", "out_of_date", "error"}

\* mutant of FinishFrame: every flush failure sets the dirty flag
FinishFrameDirtyOnAnyError(r, after_future, flush) ==
    IF flush = "ok"
    THEN [r EXCEPT !.previous_frame_end = Some(PresentFuture(TRUE))]
    ELSE IF flush = "ok_wait_failed"
    THEN [r EXCEPT !.previous_frame_end = Some(PresentFuture(FALSE))]
    ELSE [r EXCEPT !.recreate_swapchain = TRUE,
                   !.previous_frame_end = Some(NowFuture)]

\* mutant of FinishFrame: the wait on the fence is left out
FinishFrameWithoutWait(r, after_future, flush) ==
    IF flush \in {"ok", "ok_wait_failed"}
    THEN [r EXCEPT !.previous_frame_end = Some(PresentFuture(FALSE))]
    ELSE IF flush = "out_of_date"
    THEN [r EXCEPT !.recreate_swapchain = TRUE,
                   !.previous_frame_end = Some(NowFuture)]
    ELSE [r EXCEPT !.previous_frame_end = Some(NowFuture)]

\* a token whose GPU work is known to have ended: sync::now, or a future whose
\* fence wait returned Ok
Completed(token) == token = NowFuture \/ token = PresentFuture(TRUE)

\* mutant of FinishFrame: a flush failure other than out-of-date stores no
\* token
FinishFrameKeepsSlotOnError(r, after_future, flush) ==
    IF flush = "ok"
    THEN [r EXCEPT !.previous_frame_end = Some(PresentFuture(TRUE))]
    ELSE IF flush = "ok_wait_failed"
    THEN [r EXCEPT !.previous_frame_end = Some(PresentFuture(FALSE))]
    ELSE IF flush = "out_of_date"
    THEN [r EXCEPT !.recreate_swapchain = TRUE,
                   !.previous_frame_end = Some(NowFuture)]
    ELSE r

\* Renderer::finish_frame
FinishFrame(r, after_future, flush) ==
    IF flush = "ok"
    THEN [r EXCEPT !.previous_frame_end = Some(PresentFuture(TRUE))]
    ELSE IF flush = "ok_wait_failed"
    THEN [r EXCEPT !.previous_frame_end = Some(PresentFuture(FALSE))]
    ELSE IF flush = "out_of_date"
    THEN [r EXCEPT !.recreate_swapchain = TRUE,
                   !.previous_frame_end = Some(NowFuture)]
    ELSE [r EXCEPT !.previous_frame_end = Some(NowFuture)]

\* ---------------------------------------------------------------- registry
\* what a start_frame call on renderer r met and returned: the recreation
\* outcome ("none" when the flag was clear), the acquisition outcome and the
\* kind of result
StartRecord(r, e, s) ==
    [rec |-> IF r.recreate_swapchain THEN e.rec ELSE "none",
     acq |-> e.acq, outcome |-> s.outcome, acquired_from |-> s.acquired_from]

\* what a finish_frame call on renderer r met: the flush outcome and the
\* image_index handed to then_swapchain_present
FinishRecord(r, flush) == [flush |-> flush, image_index |-> r.image_index]

\* PipelineFrameData { window_id, before: None, after: None }
EmptyFrameData == [before |-> None, after |-> None]

\* PipelineData::add
PipelineDataAdd(fd, id, data) == MapInsert(fd, id, data)

\* PipelineData::remove
PipelineDataRemove(fd, id) == MapRemove(fd, id)

\* VulkanoWinitWindows::get_vulkano_window_mut / get_winit_window: the id is
\* looked up in window_id_to_winit, the winit id in windows
HasVulkanoWindow(id) == id \in window_id_to_winit /\ id \in DOMAIN windows

\* ------------------------------------------------- deferred render pass
\* RenderPassDeferred::frame on success: the frame-cursor object
NewFrame(before_future) ==
    [ num_pass |-> 0,
      before_main_cb_future |-> Some(before_future),
      command_buffer_builder |-> Some([commands |-> 0, render_pass_open |-> TRUE]) ]

\* results of the GPU-API calls of the second step of Frame::next_pass
NextPassOutcomes == {"ok", "end_render_pass_error", "build_error", "then_execute_error"}

PassResult(f, kind, token) == [frame |-> f, kind |-> kind, token |-> token]

\* mutant of NextPassFinish: the before token is used but left in the frame
NextPassFinishKeepsBefore(f, gpu) ==
    IF ~IsSome(f.command_buffer_builder)
    THEN PassResult(f, "Panic", None)
    ELSE IF gpu = "end_render_pass_error"
    THEN PassResult(f, "Err", None)
    ELSE LET f1 == [f EXCEPT !.command_buffer_builder = None]
         IN  IF gpu = "build_error"
             THEN PassResult(f1, "Err", None)
             ELSE IF ~IsSome(f1.before_main_cb_future)
             THEN PassResult(f1, "Panic", None)
             ELSE IF gpu = "then_execute_error"
             THEN PassResult(f1, "Err", None)
             ELSE PassResult(f1, "Finished",
                             Some(ThenExecute(Unwrap(f1.before_main_cb_future), "gfx_queue")))

\* the arm `1 =>` of Frame::next_pass, f is the frame after num_pass += 1
NextPassFinish(f, gpu) ==
    IF ~IsSome(f.command_buffer_builder)
    THEN PassResult(f, "Panic", None)
    ELSE IF gpu = "end_render_pass_error"
    THEN PassResult(f, "Err", None)
    ELSE LET f1 == [f EXCEPT !.command_buffer_builder = None]
         IN  IF gpu = "build_error"
             THEN PassResult(f1, "Err", None)
             ELSE IF ~IsSome(f1.before_main_cb_future)
             THEN PassResult(f1, "Panic", None)
             ELSE LET f2 == [f1 EXCEPT !.before_main_cb_future = None]
                      before == Unwrap(f1.before_main_cb_future)
                  IN  IF gpu = "then_execute_error"
                      THEN PassResult(f2, "Err", None)
                      ELSE PassResult(f2, "Finished",
                                      Some(ThenExecute(before, "gfx_queue")))

\* mutant of NextPass: the match is on the incremented counter
NextPassMatchesIncremented(f, gpu, checks) ==
    LET current_pass == f.num_pass + 1
    IN  IF current_pass >= U8Modulus /\ checks
        THEN PassResult(f, "Panic", None)
        ELSE LET f1 == [f EXCEPT !.num_pass = current_pass % U8Modulus]
             IN  IF current_pass % U8Modulus = 0 THEN PassResult(f1, "Deferred", None)
                 ELSE IF current_pass = 1 THEN NextPassFinish(f1, gpu)
                 ELSE PassResult(f1, "Nothing", None)

\* Frame::next_pass; [frame, kind, token] with kind "Deferred", "Finished",
\* "Nothing" (Ok(None)), "Err" or "Panic".  num_pass += 1 on a u8 holding 255
\* panics when the build checks overflow and wraps to 0 when it does not.
NextPass(f, gpu, checks) ==
    LET current_pass == f.num_pass
    IN  IF current_pass + 1 >= U8Modulus /\ checks
        THEN PassResult(f, "Panic", None)
        ELSE LET f1 == [f EXCEPT !.num_pass = (current_pass + 1) % U8Modulus]
             IN  IF current_pass = 0 THEN PassResult(f1, "Deferred", None)
                 ELSE IF current_pass = 1 THEN NextPassFinish(f1, gpu)
                 ELSE PassResult(f1, "Nothing", None)

\* Frame::execute and DrawPass::execute on success: execute_commands on the
\* primary command buffer builder; panic when the builder has been taken
Execute(f) ==
    IF ~IsSome(f.command_buffer_builder)
    THEN [frame |-> f, panic |-> TRUE]
    ELSE [frame |-> [f EXCEPT !.command_buffer_builder =
                        Some([Unwrap(@) EXCEPT !.commands = @ + 1])],
          panic |-> FALSE]

\* the `while let Some(pass) = frame.next_pass().unwrap()` loop of
\* main_render_system: [after_future, panic]; gpu is the outcome of the GPU-API
\* calls of the frame, draw_ok that of draw_circle
RECURSIVE DrivePasses(_, _, _, _)
DrivePasses(f, after_future, gpu, draw_ok) ==
    LET p == NextPass(f, gpu, overflow_checks)
    IN  IF p.kind \in {"Err", "Panic"} THEN [after_future |-> None, panic |-> TRUE]
        ELSE IF p.kind = "Nothing" THEN [after_future |-> after_future, panic |-> FALSE]
        ELSE IF p.kind = "Deferred"
        THEN LET e == Execute(p.frame)
             IN  IF e.panic \/ ~draw_ok
                 THEN [after_future |-> None, panic |-> TRUE]
                 ELSE DrivePasses(e.frame, None, gpu, draw_ok)
        ELSE DrivePasses(p.frame, p.token, gpu, draw_ok)

\* ------------------------------------------------------------ PreUpdate
Range(seq) == {seq[i] : i \in 1 .. Len(seq)}

\* `for event in events.iter().rev()`: push the ids not yet in the list
RECURSIVE PushChanged(_, _)
\* mutant of PushChanged: the `contains` test is left out
RECURSIVE PushChangedAll(_, _)
PushChangedAll(ids, events) ==
    IF events = << >> THEN ids
    ELSE PushChangedAll(Append(ids, events[Len(events)]),
                        SubSeq(events, 1, Len(events) - 1))

PushChanged(ids, events) ==
    IF events = << >> THEN ids
    ELSE LET id == events[Len(events)]
             rest == SubSeq(events, 1, Len(events) - 1)
         IN  PushChanged(IF id \in Range(ids) THEN ids ELSE Append(ids, id), rest)

\* changed_window_ids of update_on_resize_system
ChangedWindowIds(resized, created) == PushChanged(PushChanged(<< >>, resized), created)

\* mutant of ResizeOne: the entry is added whether or not a renderer is found
ResizeOneUnchecked(id, ws, fd) ==
    [windows |-> IF id \in window_id_to_winit /\ id \in DOMAIN ws
                 THEN [ws EXCEPT ![id] = Resize(@)] ELSE ws,
     frame_data |-> PipelineDataAdd(fd, id, EmptyFrameData)]

\* body of `for id in changed_window_ids` of update_on_resize_system:
\* [windows, frame_data]
ResizeOne(id, ws, fd) ==
    IF id \in window_id_to_winit /\ id \in DOMAIN ws
    THEN [windows |-> [ws EXCEPT ![id] = Resize(@)],
          frame_data |-> PipelineDataAdd(fd, id, EmptyFrameData)]
    ELSE [windows |-> ws, frame_data |-> fd]

\* `for id in changed_window_ids` of update_on_resize_system: [windows, frame_data]
RECURSIVE ResizeChanged(_, _, _)
ResizeChanged(ids, ws, fd) ==
    IF ids = << >> THEN [windows |-> ws, frame_data |-> fd]
    ELSE LET r == ResizeOne(Head(ids), ws, fd)
         IN  ResizeChanged(Tail(ids), r.windows, r.frame_data)

\* mutant of CloseRemoveEntry: the renderer is removed first
CloseRemoveRendererFirst(ws, fd, id) ==
    [windows |-> MapRemove(ws, id), frame_data |-> fd]

\* exit_on_window_close_system, non-primary branch, first statement
CloseRemoveEntry(ws, fd, id) ==
    [windows |-> ws, frame_data |-> PipelineDataRemove(fd, id)]

\* mutant of CloseRemoveWindow: the renderer stays in the window map
CloseRemoveWindowKeepsRenderer(ws, fd, id) == [windows |-> ws, frame_data |-> fd]

\* exit_on_window_close_system, non-primary branch, the statements after the
\* first: `continue` when get_winit_window finds nothing
CloseRemoveWindow(ws, fd, id) ==
    IF id \in window_id_to_winit /\ id \in DOMAIN ws
    THEN [windows |-> MapRemove(ws, id), frame_data |-> fd]
    ELSE [windows |-> ws, frame_data |-> fd]

\* -------------------------------------------------------- render systems
\* outcomes of the GPU-API calls of main_render_system
MainRenderEnvs ==
    { [frame_ok |-> TRUE, gpu |-> "ok", draw_ok |-> TRUE, flush_ok |-> TRUE],
      [frame_ok |-> FALSE, gpu |-> "ok", draw_ok |-> TRUE, flush_ok |-> TRUE],
      [frame_ok |-> TRUE, gpu |-> "ok", draw_ok |-> FALSE, flush_ok |-> TRUE],
      [frame_ok |-> TRUE, gpu |-> "ok", draw_ok |-> TRUE, flush_ok |-> FALSE] }
    \cup { [frame_ok |-> TRUE, gpu |-> g, draw_ok |-> TRUE, flush_ok |-> TRUE] :
              g \in NextPassOutcomes }

\* mutant of TakeBefore: the token is read and left in the slot
TakeBeforeClones(data) == [token |-> data.before, data |-> data]

\* frame_data.before.take(): [token, data]
TakeBefore(data) == [token |-> data.before, data |-> [data EXCEPT !.before = None]]

\* body of main_render_system for one registry entry whose window is the
\* primary window and has a renderer: [data, panic]
MainRender(data, env) ==
    IF ~IsSome(TakeBefore(data).token) THEN [data |-> TakeBefore(data).data, panic |-> FALSE]
    ELSE LET taken == TakeBefore(data).data
             before_future == Unwrap(TakeBefore(data).token)
         IN  IF ~env.frame_ok THEN [data |-> taken, panic |-> TRUE]
             ELSE LET d == DrivePasses(NewFrame(before_future), None, env.gpu, env.draw_ok)
                  IN  IF d.panic \/ ~IsSome(d.after_future) \/ ~env.flush_ok
                      THEN [data |-> taken, panic |-> TRUE]
                      ELSE [data |-> [taken EXCEPT !.after =
                                         Some(FenceFlush(Unwrap(d.after_future)))],
                            panic |-> FALSE]

\* --------------------------------------------------------- graphics context
DeviceTypes == {"DiscreteGpu", "IntegratedGpu", "VirtualGpu", "Cpu", "Other"}

\* the key closure handed to min_by_key
DeviceTypeKey(t) ==
    CASE t = "DiscreteGpu" -> 1
      [] t = "IntegratedGpu" -> 2
      [] t = "VirtualGpu" -> 3
      [] t = "Cpu" -> 4
      [] OTHER -> 5

\* mutant of MinByKey: of two devices of equal key the later one is kept
RECURSIVE MinByKeyTakesLast(_, _, _)
MinByKeyTakesLast(devices, i, best) ==
    IF i > Len(devices) THEN best
    ELSE MinByKeyTakesLast(devices, i + 1,
                           IF DeviceTypeKey(devices[i]) <= DeviceTypeKey(devices[best])
                           THEN i ELSE best)

\* Iterator::min_by_key from element i on; best is the index of the minimum
\* so far, which only an element of strictly smaller key replaces
RECURSIVE MinByKey(_, _, _)
MinByKey(devices, i, best) ==
    IF i > Len(devices) THEN best
    ELSE MinByKey(devices, i + 1,
                  IF DeviceTypeKey(devices[i]) < DeviceTypeKey(devices[best])
                  THEN i ELSE best)

\* PhysicalDevice::enumerate(&instance).min_by_key(..): None on an empty
\* enumeration
SelectPhysicalDevice(devices) ==
    IF devices = << >> THEN None ELSE Some(MinByKey(devices, 2, 1))

\* mutant of FindGraphicsFamily: without a graphics family the first family is
\* used
RECURSIVE FindGraphicsFamilyOrFirst(_, _, _)
FindGraphicsFamilyOrFirst(families, i, with_surface) ==
    IF i > Len(families) THEN (IF families = << >> THEN None ELSE Some(1))
    ELSE IF families[i].graphics /\ (with_surface => families[i].surface) THEN Some(i)
    ELSE FindGraphicsFamilyOrFirst(families, i + 1, with_surface)

\* queue_families().enumerate().find(|(_i, q)| q.supports_graphics()) from
\* family i on; Renderer::create_device also asks surface.is_supported(q)
RECURSIVE FindGraphicsFamily(_, _, _)
FindGraphicsFamily(families, i, with_surface) ==
    IF i > Len(families) THEN None
    ELSE IF families[i].graphics /\ (with_surface => families[i].surface) THEN Some(i)
    ELSE FindGraphicsFamily(families, i + 1, with_surface)

\* mutant of FindComputeFamily: the graphics family is not passed over
RECURSIVE FindComputeFamilyAny(_, _, _)
FindComputeFamilyAny(families, i, gfx_index) ==
    IF i > Len(families) THEN None
    ELSE IF families[i].compute THEN Some(i)
    ELSE FindComputeFamilyAny(families, i + 1, gfx_index)

\* queue_families().enumerate().find(|(i, q)| i != gfx_index &&
\* q.supports_compute()) from family i on
RECURSIVE FindComputeFamily(_, _, _)
FindComputeFamily(families, i, gfx_index) ==
    IF i > Len(families) THEN None
    ELSE IF i # gfx_index /\ families[i].compute THEN Some(i)
    ELSE FindComputeFamily(families, i + 1, gfx_index)

\* queues.next(): the one queue Device::new creates in a family
FamilyQueue(family) == [family |-> family, id |-> 0]

\* create_device; [context, panic]: the queues returned, or the message of
\* the unwrap that failed
CreateDevice(families, with_surface, device_ok) ==
    LET gfx == FindGraphicsFamily(families, 1, with_surface)
    IN  IF ~IsSome(gfx)
        THEN [context |-> None, panic |-> "unwrap on None: graphics queue family"]
        ELSE LET compute_family_data == FindComputeFamily(families, 1, Unwrap(gfx))
                 gfx_queue == FamilyQueue(Unwrap(gfx))
             IN  IF ~device_ok
                 THEN [context |-> None, panic |-> "unwrap on Err: Device::new"]
                 ELSE IF IsSome(compute_family_data)
                 THEN [context |-> Some([graphics_queue |-> gfx_queue,
                                         compute_queue |->
                                            FamilyQueue(Unwrap(compute_family_data))]),
                       panic |-> ""]
                 ELSE [context |-> Some([graphics_queue |-> gfx_queue,
                                         compute_queue |-> gfx_queue]),
                       panic |-> ""]

\* -------------------------------------------------------------- video modes
\* a.cmp(&b) on integers
Cmp(a, b) == IF a < b THEN "Less" ELSE IF a > b THEN "Greater" ELSE "Equal"

\* fn abs_diff(a: u32, b: u32) -> u32
AbsDiff(a, b) == IF a > b THEN a - b ELSE b - a

\* mutant of FittingOrder: of two modes of equal size the lower refresh rate
\* sorts first
FittingOrderRefreshAscending(a, b, width, height) ==
    LET by_width == Cmp(AbsDiff(a.width, width), AbsDiff(b.width, width))
        by_height == Cmp(AbsDiff(a.height, height), AbsDiff(b.height, height))
    IN  IF by_width # "Equal" THEN by_width
        ELSE IF by_height # "Equal" THEN by_height
        ELSE Cmp(a.refresh_rate, b.refresh_rate)

\* the closure handed to sort_by in get_fitting_videomode
FittingOrder(a, b, width, height) ==
    LET by_width == Cmp(AbsDiff(a.width, width), AbsDiff(b.width, width))
        by_height == Cmp(AbsDiff(a.height, height), AbsDiff(b.height, height))
    IN  IF by_width # "Equal" THEN by_width
        ELSE IF by_height # "Equal" THEN by_height
        ELSE Cmp(b.refresh_rate, a.refresh_rate)

\* mutant of BestOrder: the refresh rate is compared first
BestOrderRefreshFirst(a, b) ==
    IF Cmp(b.refresh_rate, a.refresh_rate) # "Equal" THEN Cmp(b.refresh_rate, a.refresh_rate)
    ELSE IF Cmp(b.width, a.width) # "Equal" THEN Cmp(b.width, a.width)
    ELSE Cmp(b.height, a.height)

\* the closure handed to sort_by in get_best_videomode
BestOrder(a, b) ==
    IF Cmp(b.width, a.width) # "Equal" THEN Cmp(b.width, a.width)
    ELSE IF Cmp(b.height, a.height) # "Equal" THEN Cmp(b.height, a.height)
    ELSE Cmp(b.refresh_rate, a.refresh_rate)

\* one step of the stable sort: x, which came after every element of sorted,
\* goes before the first element it is Less than
RECURSIVE SortInsert(_, _, _)
SortInsert(sorted, x, order) ==
    IF sorted = << >> THEN << x >>
    ELSE IF order[x, Head(sorted)] = "Less" THEN << x >> \o sorted
    ELSE << Head(sorted) >> \o SortInsert(Tail(sorted), x, order)

\* Vec::sort_by, a stable sort; order[a, b] is what the closure returns
RECURSIVE SortBy(_, _)
SortBy(modes, order) ==
    IF modes = << >> THEN << >>
    ELSE SortInsert(SortBy(SubSeq(modes, 1, Len(modes) - 1), order),
                    modes[Len(modes)], order)

\* modes.first() after the sort
First(modes) == IF modes = << >> THEN None ELSE Some(modes[1])

\* get_fitting_videomode up to modes.first(): None when there is no mode
GetFittingVideomode(modes, width, height) ==
    First(SortBy(modes, [a \in Range(modes), b \in Range(modes) |->
                            FittingOrder(a, b, width, height)]))

\* mutant of GetBestVideomode: a monitor without modes yields a default mode
GetBestVideomodeOrDefault(modes) ==
    IF modes = << >>
    THEN Some([width |-> 0, height |-> 0, refresh_rate |-> 0, bit_depth |-> 0])
    ELSE First(SortBy(modes, [a \in Range(modes), b \in Range(modes) |-> BestOrder(a, b)]))

\* get_best_videomode up to modes.first(): None when there is no mode
GetBestVideomode(modes) ==
    First(SortBy(modes, [a \in Range(modes), b \in Range(modes) |-> BestOrder(a, b)]))

\* the context and the windows of the examples: one discrete GPU with one
\* queue family that supports graphics, compute and the surface; windowed mode
\* asks for no video mode
ExampleFamilies == << [graphics |-> TRUE, compute |-> TRUE, surface |-> TRUE] >>
ExampleContext ==
    /\ physical_devices = << "DiscreteGpu" >>
    /\ physical_device = SelectPhysicalDevice(physical_devices)
    /\ queue_families = ExampleFamilies
    /\ context = CreateDevice(ExampleFamilies, TRUE, TRUE).context
    /\ ctx_pc = "built"
NoVideoMode ==
    /\ video_modes = << >>
    /\ requested = [width |-> 0, height |-> 0]
    /\ fitting_mode = None
    /\ best_mode = None
\* bounds of the side specifications
MaxEntities == 2
MaxCallers == 2
MaxIds == 3
Entities == 1 .. MaxEntities
Callers == 1 .. MaxCallers
RendererIds == 0 .. 1

\* winit_runner_with: `let mut active = true;`
RunnerActive == active = TRUE

\* BevyVulkanoWindows::default(): no entity has a window
NoEntities ==
    /\ window_entities = {}
    /\ removed_windows = << >>
    /\ closed = << >>
    /\ created_windows = << >>
    /\ entity_to_winit = EmptyMap
    /\ winit_to_entity = EmptyMap
    /\ winit_windows = EmptyMap
    /\ native_built = [e \in Entities |-> 0]
    /\ created_sent = [e \in Entities |-> 0]
    /\ closed_sent = [e \in Entities |-> 0]

\* `static COUNTER: AtomicUsize = AtomicUsize::new(1)` and, in Renderer::new,
\* `image_textures: HashMap::new()`; no caller is in a call
NoTextures ==
    /\ COUNTER = 1
    /\ image_textures = [r \in RendererIds |-> EmptyMap]
    /\ caller = [c \in Callers |-> [at |-> "idle", renderer |-> 0, new_id |-> 0]]
    /\ handed_out = << >>
    /\ overwritten = {}

SideInit == RunnerActive /\ NoEntities /\ NoTextures
PureInit == ExampleContext /\ NoVideoMode /\ SideInit

\* ===================================================================== Init
\* VulkanoWinitPlugin::build: PipelineData is empty, the primary window and its
\* renderer exist and its WindowCreated event is waiting to be read
LoopInit ==
    /\ pc = "idle"
    /\ control_flow = "Poll"
    /\ app_exit = FALSE
    /\ windows = MapInsert(EmptyMap, PrimaryId, NewRenderer)
    /\ window_id_to_winit = {PrimaryId}
    /\ frame_data = EmptyMap
    /\ create_window_events = << >>
    /\ window_created_events = << PrimaryId >>
    /\ window_resized_events = << >>
    /\ window_close_requested_events = << >>
    /\ systems_run = << >>
    /\ changed_window_ids = << >>
    /\ close_iter = << >>
    /\ close_pos = "next"
    /\ todo = {}
    /\ panic_msg = ""

NoPass == [kind |-> "NoCall", token |-> None]

FrameInit ==
    /\ frame = None
    /\ calls = 0
    /\ last_pass = NoPass
    /\ finished_at = 0
    /\ before_given = None
    /\ submissions = 0
    /\ had_err = FALSE
    /\ frame_panicked = FALSE

\* no renderer call has been made and no close handled
ObsInit ==
    /\ started = EmptyMap
    /\ finished = EmptyMap
    /\ rendered = {}
    /\ in_flight = {}
    /\ closed_windows = {}

\* the render systems make three next_pass calls on a frame, which no build
\* profile tells apart
Init == LoopInit /\ FrameInit /\ ObsInit /\ PureInit /\ overflow_checks = TRUE

\* ================================================================== runner
\* the event handler sets control_flow before it handles the event
HandlerControlFlow == IF app_exit THEN "Exit" ELSE "Poll"

\* window events waiting to be read
QueuedEvents == Len(window_resized_events) + Len(window_close_requested_events)

\* winit_runner_with, WindowEvent::Resized
WinitResized ==
    /\ pc = "idle" /\ control_flow = "Poll"
    /\ \E w \in window_id_to_winit :
          /\ QueuedEvents < MaxEvents
          /\ window_resized_events' = Append(window_resized_events, w)
    /\ control_flow' = HandlerControlFlow
    /\ UNCHANGED << pc, app_exit, windows, window_id_to_winit, frame_data,
                    create_window_events, window_created_events,
                    window_close_requested_events, systems_run, changed_window_ids,
                    close_iter, close_pos, todo, panic_msg, frameVars, pureVars, obsVars >>

\* winit_runner_with, WindowEvent::CloseRequested
WinitCloseRequested ==
    /\ pc = "idle" /\ control_flow = "Poll"
    /\ \E w \in window_id_to_winit :
          /\ QueuedEvents < MaxEvents
          /\ window_close_requested_events' = Append(window_close_requested_events, w)
    /\ control_flow' = HandlerControlFlow
    /\ UNCHANGED << pc, app_exit, windows, window_id_to_winit, frame_data,
                    create_window_events, window_created_events,
                    window_resized_events, systems_run, changed_window_ids,
                    close_iter, close_pos, todo, panic_msg, frameVars, pureVars, obsVars >>

\* an application system sends CreateWindow with a fresh WindowId
SendCreateWindow ==
    /\ pc = "idle" /\ control_flow = "Poll"
    /\ \E w \in WindowIds \ {PrimaryId} :
          /\ w \notin window_id_to_winit
          /\ w \notin Range(create_window_events)
          /\ \A v \in WindowIds : v < w => (v \in window_id_to_winit \/ v \in Range(create_window_events))
          /\ create_window_events' = Append(create_window_events, w)
    /\ UNCHANGED << pc, control_flow, app_exit, windows, window_id_to_winit, frame_data,
                    window_created_events, window_resized_events,
                    window_close_requested_events, systems_run, changed_window_ids,
                    close_iter, close_pos, todo, panic_msg, frameVars, pureVars, obsVars >>

\* handle_create_window_events: [windows, ids, created]
RECURSIVE HandleCreateWindowEvents(_, _, _, _)
HandleCreateWindowEvents(events, ws, ids, created) ==
    IF events = << >> THEN [windows |-> ws, ids |-> ids, created |-> created]
    ELSE HandleCreateWindowEvents(Tail(events),
                                  MapInsert(ws, Head(events), NewRenderer),
                                  ids \cup {Head(events)},
                                  Append(created, Head(events)))

\* mutant of MainEventsCleared: app.update() is called whatever `active` is
MainEventsClearedAlwaysUpdates ==
    /\ pc = "idle" /\ control_flow = "Poll"
    /\ LET h == HandleCreateWindowEvents(create_window_events, windows,
                                         window_id_to_winit, window_created_events)
       IN  /\ windows' = h.windows
           /\ window_id_to_winit' = h.ids
           /\ window_created_events' = h.created
    /\ create_window_events' = << >>
    /\ control_flow' = HandlerControlFlow
    /\ pc' = "preupdate"
    /\ systems_run' = << >>
    /\ UNCHANGED << app_exit, frame_data, window_resized_events,
                    window_close_requested_events, changed_window_ids,
                    close_iter, close_pos, todo, panic_msg, frameVars, pureVars, obsVars >>

\* winit_runner_with, Event::MainEventsCleared: handle_create_window_events,
\* then, `if active`, app.update() starts with the PreUpdate stage
MainEventsCleared ==
    /\ pc = "idle" /\ control_flow = "Poll"
    /\ LET h == HandleCreateWindowEvents(create_window_events, windows,
                                         window_id_to_winit, window_created_events)
       IN  /\ windows' = h.windows
           /\ window_id_to_winit' = h.ids
           /\ window_created_events' = h.created
    /\ create_window_events' = << >>
    /\ control_flow' = HandlerControlFlow
    /\ pc' = IF active THEN "preupdate" ELSE "idle"
    /\ systems_run' = << >>
    /\ UNCHANGED << app_exit, frame_data, window_resized_events,
                    window_close_requested_events, changed_window_ids,
                    close_iter, close_pos, todo, panic_msg, frameVars, pureVars, obsVars >>

\* =============================================================== PreUpdate
\* update_on_resize_system
UpdateOnResizeSystem ==
    /\ pc = "preupdate" /\ "resize" \notin Range(systems_run)
    /\ LET ids == ChangedWindowIds(window_resized_events, window_created_events)
           r == ResizeChanged(ids, windows, frame_data)
       IN  /\ changed_window_ids' = ids
           /\ windows' = r.windows
           /\ frame_data' = r.frame_data
    /\ window_resized_events' = << >>
    /\ window_created_events' = << >>
    /\ systems_run' = Append(systems_run, "resize")
    /\ UNCHANGED << pc, control_flow, app_exit, window_id_to_winit, create_window_events,
                    window_close_requested_events, close_iter, close_pos, todo,
                    panic_msg, frameVars, pureVars, obsVars >>

\* exit_on_window_close_system is entered: its reader takes the unread events
ExitSystemBegin ==
    /\ pc = "preupdate" /\ "exit" \notin Range(systems_run)
    /\ pc' = "closing"
    /\ close_iter' = window_close_requested_events
    /\ close_pos' = "next"
    /\ window_close_requested_events' = << >>
    /\ UNCHANGED << control_flow, app_exit, windows, window_id_to_winit, frame_data,
                    create_window_events, window_created_events, window_resized_events,
                    systems_run, changed_window_ids, todo, panic_msg, frameVars, pureVars, obsVars >>

\* mutant of ExitHandleEvent: the primary window is cleaned up like any other
\* before AppExit is sent
ExitHandleEventCleansPrimary ==
    /\ pc = "closing" /\ close_pos = "next" /\ close_iter # << >>
    /\ LET id == Head(close_iter)
           c == CloseRemoveEntry(windows, frame_data, id)
       IN  /\ windows' = c.windows
           /\ frame_data' = c.frame_data
           /\ IF id = PrimaryId
              THEN /\ app_exit' = TRUE
                   /\ close_iter' = Tail(close_iter)
                   /\ UNCHANGED close_pos
              ELSE /\ close_pos' = "entry_removed"
                   /\ UNCHANGED << app_exit, close_iter >>
    /\ UNCHANGED << pc, control_flow, window_id_to_winit, create_window_events,
                    window_created_events, window_resized_events,
                    window_close_requested_events, systems_run, changed_window_ids,
                    todo, panic_msg, frameVars, pureVars, obsVars >>

\* exit_on_window_close_system, loop body up to pipeline_data.remove
ExitHandleEvent ==
    /\ pc = "closing" /\ close_pos = "next" /\ close_iter # << >>
    /\ LET id == Head(close_iter)
       IN  IF id = PrimaryId
           THEN /\ app_exit' = TRUE
                /\ close_iter' = Tail(close_iter)
                /\ UNCHANGED << windows, frame_data, close_pos >>
           ELSE LET c == CloseRemoveEntry(windows, frame_data, id)
                IN  /\ windows' = c.windows
                    /\ frame_data' = c.frame_data
                    /\ close_pos' = "entry_removed"
                    /\ UNCHANGED << app_exit, close_iter >>
    /\ UNCHANGED << pc, control_flow, window_id_to_winit, create_window_events,
                    window_created_events, window_resized_events,
                    window_close_requested_events, systems_run, changed_window_ids,
                    todo, panic_msg, frameVars, pureVars, obsVars >>

\* exit_on_window_close_system, rest of the loop body
ExitRemoveWindow ==
    /\ pc = "closing" /\ close_pos = "entry_removed"
    /\ LET c == CloseRemoveWindow(windows, frame_data, Head(close_iter))
       IN  /\ windows' = c.windows
           /\ frame_data' = c.frame_data
    /\ close_iter' = Tail(close_iter)
    /\ close_pos' = "next"
    /\ closed_windows' = closed_windows \cup {Head(close_iter)}
    /\ UNCHANGED << pc, control_flow, app_exit, window_id_to_winit, create_window_events,
                    window_created_events, window_resized_events,
                    window_close_requested_events, systems_run, changed_window_ids,
                    todo, panic_msg, frameVars, pureVars, started, finished, rendered, in_flight >>

\* exit_on_window_close_system returns
ExitSystemEnd ==
    /\ pc = "closing" /\ close_pos = "next" /\ close_iter = << >>
    /\ pc' = "preupdate"
    /\ systems_run' = Append(systems_run, "exit")
    /\ UNCHANGED << control_flow, app_exit, windows, window_id_to_winit, frame_data,
                    create_window_events, window_created_events, window_resized_events,
                    window_close_requested_events, changed_window_ids, close_iter,
                    close_pos, todo, panic_msg, frameVars, pureVars, obsVars >>

\* ============================================================ render stages
\* the PreUpdate stage is over (its systems' locals are gone), the schedule
\* reaches RenderStage::RenderStart
RenderStartStage ==
    /\ pc = "preupdate"
    /\ {"resize", "exit"} \subseteq Range(systems_run)
    /\ pc' = "render_start"
    /\ todo' = DOMAIN frame_data
    /\ systems_run' = << >>
    /\ changed_window_ids' = << >>
    /\ UNCHANGED << control_flow, app_exit, windows, window_id_to_winit, frame_data,
                    create_window_events, window_created_events, window_resized_events,
                    window_close_requested_events, close_iter, close_pos, panic_msg,
                    frameVars, pureVars, obsVars >>

\* the outcomes the driver can report to start_frame on renderer r:
\* recreation is only attempted when the flag is set
StartFrameEnvs(r) ==
    { e \in [rec : RecreateOutcomes, acq : AcquireOutcomes] :
        ~r.recreate_swapchain => e.rec = "ok" }

\* pre_render_setup_system, one iteration of its loop
PreRenderSetupStep ==
    /\ pc = "render_start"
    /\ \E w \in todo :
          /\ todo' = todo \ {w}
          /\ IF HasVulkanoWindow(w)
             THEN \E e \in StartFrameEnvs(windows[w]) :
                     LET s == StartFrame(windows[w], e.rec, e.acq)
                     IN  /\ windows' = [windows EXCEPT ![w] = s.renderer]
                         /\ started' = MapInsert(started, w, StartRecord(windows[w], e, s))
                         /\ in_flight' = IF s.outcome = "Ok" THEN in_flight \cup {w}
                                         ELSE in_flight
                         /\ IF s.outcome = "Panic"
                            THEN /\ pc' = "panicked"
                                 /\ panic_msg' = s.msg
                                 /\ UNCHANGED frame_data
                            ELSE /\ frame_data' = [frame_data EXCEPT ![w].before = s.token]
                                 /\ UNCHANGED << pc, panic_msg >>
             ELSE UNCHANGED << windows, frame_data, pc, panic_msg, started, in_flight >>
    /\ UNCHANGED << control_flow, app_exit, window_id_to_winit,
                    create_window_events, window_created_events, window_resized_events,
                    window_close_requested_events, systems_run, changed_window_ids,
                    close_iter, close_pos, frameVars, pureVars, finished, rendered, closed_windows >>

\* mutant of PreRenderSetupEnd: RenderStage::Render does not wait for
\* pre_render_setup_system to return
PreRenderSetupEndEarly ==
    /\ pc = "render_start"
    /\ pc' = "render"
    /\ todo' = DOMAIN frame_data
    /\ UNCHANGED << control_flow, app_exit, windows, window_id_to_winit, frame_data,
                    create_window_events, window_created_events, window_resized_events,
                    window_close_requested_events, systems_run, changed_window_ids,
                    close_iter, close_pos, panic_msg, frameVars, pureVars, obsVars >>

\* pre_render_setup_system returns, the schedule reaches RenderStage::Render
PreRenderSetupEnd ==
    /\ pc = "render_start" /\ todo = {}
    /\ pc' = "render"
    /\ todo' = DOMAIN frame_data
    /\ UNCHANGED << control_flow, app_exit, windows, window_id_to_winit, frame_data,
                    create_window_events, window_created_events, window_resized_events,
                    window_close_requested_events, systems_run, changed_window_ids,
                    close_iter, close_pos, panic_msg, frameVars, pureVars, obsVars >>

\* main_render_system, one iteration of its loop
MainRenderStep ==
    /\ pc = "render"
    /\ \E w \in todo :
          /\ todo' = todo \ {w}
          /\ IF w = PrimaryId /\ HasVulkanoWindow(w)
             THEN \E env \in MainRenderEnvs :
                     LET m == MainRender(frame_data[w], env)
                     IN  /\ frame_data' = [frame_data EXCEPT ![w] = m.data]
                         /\ rendered' = rendered \cup {w}
                         /\ IF m.panic
                            THEN /\ pc' = "panicked"
                                 /\ panic_msg' = "unwrap on Err in main_render_system"
                            ELSE UNCHANGED << pc, panic_msg >>
             ELSE UNCHANGED << frame_data, pc, panic_msg, rendered >>
    /\ UNCHANGED << control_flow, app_exit, windows, window_id_to_winit,
                    create_window_events, window_created_events, window_resized_events,
                    window_close_requested_events, systems_run, changed_window_ids,
                    close_iter, close_pos, frameVars, pureVars, started, finished, in_flight,
                    closed_windows >>

\* main_render_system returns, the schedule reaches RenderStage::RenderFinish
MainRenderEnd ==
    /\ pc = "render" /\ todo = {}
    /\ pc' = "render_finish"
    /\ todo' = DOMAIN frame_data
    /\ UNCHANGED << control_flow, app_exit, windows, window_id_to_winit, frame_data,
                    create_window_events, window_created_events, window_resized_events,
                    window_close_requested_events, systems_run, changed_window_ids,
                    close_iter, close_pos, panic_msg, frameVars, pureVars, obsVars >>

\* post_render_system, one iteration of its loop
PostRenderStep ==
    /\ pc = "render_finish"
    /\ \E w \in todo :
          /\ todo' = todo \ {w}
          /\ IF HasVulkanoWindow(w) /\ IsSome(frame_data[w].after)
             THEN \E f \in FlushOutcomes :
                     /\ windows' = [windows EXCEPT
                                      ![w] = FinishFrame(@, Unwrap(frame_data[w].after), f)]
                     /\ frame_data' = [frame_data EXCEPT ![w].after = None]
                     /\ finished' = MapInsert(finished, w, FinishRecord(windows[w], f))
                     /\ in_flight' = in_flight \ {w}
             ELSE UNCHANGED << windows, frame_data, finished, in_flight >>
    /\ UNCHANGED << pc, control_flow, app_exit, window_id_to_winit,
                    create_window_events, window_created_events, window_resized_events,
                    window_close_requested_events, systems_run, changed_window_ids,
                    close_iter, close_pos, panic_msg, frameVars, pureVars, started, rendered, closed_windows >>

\* post_render_system returns, app.update() returns to the event loop
PostRenderEnd ==
    /\ pc = "render_finish" /\ todo = {}
    /\ pc' = "idle"
    /\ started' = EmptyMap
    /\ finished' = EmptyMap
    /\ rendered' = {}
    /\ UNCHANGED << control_flow, app_exit, windows, window_id_to_winit, frame_data,
                    create_window_events, window_created_events, window_resized_events,
                    window_close_requested_events, systems_run, changed_window_ids,
                    close_iter, close_pos, todo, panic_msg, frameVars, pureVars, in_flight,
                    closed_windows >>

Next ==
    \/ WinitResized
    \/ WinitCloseRequested
    \/ SendCreateWindow
    \/ MainEventsCleared
    \/ UpdateOnResizeSystem
    \/ ExitSystemBegin
    \/ ExitHandleEvent
    \/ ExitRemoveWindow
    \/ ExitSystemEnd
    \/ RenderStartStage
    \/ PreRenderSetupStep
    \/ PreRenderSetupEnd
    \/ MainRenderStep
    \/ MainRenderEnd
    \/ PostRenderStep
    \/ PostRenderEnd

Spec == Init /\ [][Next]_vars

\* ------------------------------------------------------------------- types
TypeOK ==
    /\ pc \in {"idle", "preupdate", "closing", "render_start", "render",
               "render_finish", "panicked"}
    /\ DOMAIN windows \subseteq window_id_to_winit
    /\ window_id_to_winit \subseteq WindowIds
    /\ \A w \in DOMAIN windows :
          /\ windows[w].swap_chain \in 0 .. (NumCreations - 1)
          /\ windows[w].image_index \in 0 .. (NumImages - 1)
    /\ QueuedEvents <= MaxEvents

\* ================================================================ SpecFrame
\* a caller of deferred.rs: it begins a frame, calls next_pass and execute in
\* any order and drops the frame
InitFrame == LoopInit /\ FrameInit /\ ObsInit /\ PureInit /\ overflow_checks \in BOOLEAN

\* tokens a caller hands to RenderPassDeferred::frame
BeforeTokens == { JoinFuture(NowFuture, 0), NowFuture }

\* commands recorded in the frame's builder (0 once the builder is taken)
Commands(f) ==
    IF IsSome(f.command_buffer_builder) THEN Unwrap(f.command_buffer_builder).commands
    ELSE 0

\* RenderPassDeferred::frame returns Ok(Frame)
FrameBegin ==
    /\ frame = None /\ ~frame_panicked
    /\ \E tok \in BeforeTokens :
          /\ frame' = Some(NewFrame(tok))
          /\ before_given' = Some(tok)
    /\ calls' = 0
    /\ last_pass' = NoPass
    /\ finished_at' = 0
    /\ submissions' = 0
    /\ had_err' = FALSE
    /\ UNCHANGED << overflow_checks, frame_panicked, loopVars, obsVars, pureVars >>

\* a call of Frame::next_pass
FrameNextPass ==
    /\ IsSome(frame) /\ ~frame_panicked
    /\ calls < MaxCalls
    /\ \E gpu \in NextPassOutcomes :
          /\ (Unwrap(frame).num_pass # 1 => gpu = "ok")
          /\ LET f == Unwrap(frame)
                 p == NextPass(f, gpu, overflow_checks)
             IN  /\ frame' = Some(p.frame)
                 /\ last_pass' = [kind |-> p.kind, token |-> p.token]
                 /\ finished_at' = IF p.kind = "Finished" /\ finished_at = 0
                                   THEN calls + 1 ELSE finished_at
                 /\ submissions' = IF IsSome(f.before_main_cb_future)
                                      /\ ~IsSome(p.frame.before_main_cb_future)
                                   THEN submissions + 1 ELSE submissions
                 /\ had_err' = (had_err \/ p.kind = "Err")
                 /\ frame_panicked' = (p.kind = "Panic")
    /\ calls' = calls + 1
    /\ UNCHANGED << before_given, overflow_checks, loopVars, obsVars, pureVars >>

\* a call of Frame::execute
FrameExecute ==
    /\ IsSome(frame) /\ ~frame_panicked
    /\ Commands(Unwrap(frame)) < MaxCmds
    /\ LET e == Execute(Unwrap(frame))
       IN  /\ frame' = Some(e.frame)
           /\ frame_panicked' = e.panic
    /\ UNCHANGED << calls, last_pass, finished_at, before_given, submissions, had_err,
                    overflow_checks, loopVars, obsVars, pureVars >>

\* a call of DrawPass::execute on the DrawPass the last next_pass call yielded
DrawPassExecute ==
    /\ IsSome(frame) /\ ~frame_panicked
    /\ last_pass.kind = "Deferred"
    /\ Commands(Unwrap(frame)) < MaxCmds
    /\ LET e == Execute(Unwrap(frame))
       IN  /\ frame' = Some(e.frame)
           /\ frame_panicked' = e.panic
    /\ UNCHANGED << calls, last_pass, finished_at, before_given, submissions, had_err,
                    overflow_checks, loopVars, obsVars, pureVars >>

\* the caller drops the frame
FrameDrop ==
    /\ IsSome(frame) /\ ~frame_panicked
    /\ frame' = None
    /\ UNCHANGED << calls, last_pass, finished_at, before_given, submissions, had_err,
                    overflow_checks, frame_panicked, loopVars, obsVars, pureVars >>

NextFrame ==
    \/ FrameBegin
    \/ FrameNextPass
    \/ FrameExecute
    \/ DrawPassExecute
    \/ FrameDrop

SpecFrame == InitFrame /\ [][NextFrame]_vars

FrameTypeOK ==
    /\ calls \in 0 .. MaxCalls
    /\ submissions \in 0 .. 1
    /\ IsSome(frame) => Unwrap(frame).num_pass \in 0 .. (U8Modulus - 1)

\* =============================================================== SpecMulti
\* the render systems of examples/multi_window_gui: both run once per update in
\* CoreStage::PostUpdate, in either order, each with exclusive access to the
\* windows.  acquire() and present() of the window renderer are start_frame and
\* finish_frame.
MaxSecondary == 2
SecondaryIds == 1 .. MaxSecondary

InitMulti ==
    /\ LoopInit /\ FrameInit /\ ObsInit /\ PureInit /\ overflow_checks = TRUE

\* create_new_window_on_space_system sends CreateWindow and the runner creates
\* the window before the next update
MultiCreateWindow ==
    /\ pc = "idle"
    /\ \E w \in SecondaryIds :
          /\ w \notin window_id_to_winit
          /\ \A v \in SecondaryIds : v < w => v \in window_id_to_winit
          /\ windows' = MapInsert(windows, w, NewRenderer)
          /\ window_id_to_winit' = window_id_to_winit \cup {w}
    /\ UNCHANGED << pc, control_flow, app_exit, frame_data, create_window_events,
                    window_created_events, window_resized_events,
                    window_close_requested_events, systems_run, changed_window_ids,
                    close_iter, close_pos, todo, panic_msg, frameVars, pureVars, obsVars >>

\* the update reaches CoreStage::PostUpdate
MultiPostUpdate ==
    /\ pc = "idle"
    /\ pc' = "post_update"
    /\ UNCHANGED << control_flow, app_exit, windows, window_id_to_winit, frame_data,
                    create_window_events, window_created_events, window_resized_events,
                    window_close_requested_events, systems_run, changed_window_ids,
                    close_iter, close_pos, todo, panic_msg, frameVars, pureVars, obsVars >>

\* the driver's answers to one window's frame: a recreation that succeeds, an
\* acquisition that succeeds, is out of date or fails fatally, a flush that
\* succeeds or is out of date
MultiStartEnvs(r) ==
    { e \in StartFrameEnvs(r) :
        e.rec = "ok" /\ ~e.acq.suboptimal /\ e.acq.image_num = 0 }
MultiFlushOutcomes == {"ok", "out_of_date"}

\* acquire, draw the gui and present on window w: the body both render systems
\* share.  [windows, started, finished, outcome]
MultiRenderWindow(w, e, f) ==
    LET s == StartFrame(windows[w], e.rec, e.acq)
        st == MapInsert(started, w, StartRecord(windows[w], e, s))
    IN  IF s.outcome = "Ok"
        THEN [windows |-> [windows EXCEPT ![w] = FinishFrame(s.renderer, Unwrap(s.token), f)],
              started |-> st,
              finished |-> MapInsert(finished, w, FinishRecord(s.renderer, f)),
              outcome |-> "Ok", msg |-> ""]
        ELSE [windows |-> [windows EXCEPT ![w] = s.renderer],
              started |-> st, finished |-> finished,
              outcome |-> s.outcome, msg |-> s.msg]

\* main_render_system_primary_window
MultiPrimaryRender ==
    /\ pc = "post_update" /\ "primary" \notin Range(systems_run)
    /\ \E e \in MultiStartEnvs(windows[PrimaryId]), f \in MultiFlushOutcomes :
          LET m == MultiRenderWindow(PrimaryId, e, f)
          IN  /\ windows' = m.windows
              /\ started' = m.started
              /\ finished' = m.finished
              /\ IF m.outcome = "Panic"
                 THEN pc' = "panicked" /\ panic_msg' = m.msg /\ UNCHANGED systems_run
                 ELSE /\ systems_run' = Append(systems_run, "primary")
                      /\ UNCHANGED << pc, panic_msg >>
    /\ UNCHANGED << control_flow, app_exit, window_id_to_winit, frame_data,
                    create_window_events, window_created_events, window_resized_events,
                    window_close_requested_events, changed_window_ids,
                    close_iter, close_pos, todo, frameVars, pureVars, rendered, in_flight,
                    closed_windows >>

\* main_render_system_secondary_window is entered: vulkano_windows.iter_mut()
MultiSecondaryBegin ==
    /\ pc = "post_update" /\ "secondary" \notin Range(systems_run)
    /\ pc' = "secondary"
    /\ todo' = DOMAIN windows
    /\ UNCHANGED << control_flow, app_exit, windows, window_id_to_winit, frame_data,
                    create_window_events, window_created_events, window_resized_events,
                    window_close_requested_events, systems_run, changed_window_ids,
                    close_iter, close_pos, panic_msg, frameVars, pureVars, obsVars >>

\* main_render_system_secondary_window, one iteration of its loop: `continue`
\* on the primary window, `return` when acquire fails
MultiSecondaryStep ==
    /\ pc = "secondary"
    /\ \E w \in todo :
          IF w = PrimaryId
          THEN /\ todo' = todo \ {w}
               /\ UNCHANGED << windows, started, finished, pc, panic_msg >>
          ELSE \E e \in MultiStartEnvs(windows[w]), f \in MultiFlushOutcomes :
                  LET m == MultiRenderWindow(w, e, f)
                  IN  /\ windows' = m.windows
                      /\ started' = m.started
                      /\ finished' = m.finished
                      /\ todo' = IF m.outcome = "Ok" THEN todo \ {w} ELSE {}
                      /\ IF m.outcome = "Panic"
                         THEN pc' = "panicked" /\ panic_msg' = m.msg
                         ELSE UNCHANGED << pc, panic_msg >>
    /\ UNCHANGED << control_flow, app_exit, window_id_to_winit, frame_data,
                    create_window_events, window_created_events, window_resized_events,
                    window_close_requested_events, systems_run, changed_window_ids,
                    close_iter, close_pos, frameVars, pureVars, rendered, in_flight,
                    closed_windows >>

\* main_render_system_secondary_window returns
MultiSecondaryEnd ==
    /\ pc = "secondary" /\ todo = {}
    /\ pc' = "post_update"
    /\ systems_run' = Append(systems_run, "secondary")
    /\ UNCHANGED << control_flow, app_exit, windows, window_id_to_winit, frame_data,
                    create_window_events, window_created_events, window_resized_events,
                    window_close_requested_events, changed_window_ids,
                    close_iter, close_pos, todo, panic_msg, frameVars, pureVars, obsVars >>

\* both render systems have run: the update returns to the event loop
MultiUpdateEnd ==
    /\ pc = "post_update"
    /\ {"primary", "secondary"} \subseteq Range(systems_run)
    /\ pc' = "idle"
    /\ systems_run' = << >>
    /\ started' = EmptyMap
    /\ finished' = EmptyMap
    /\ rendered' = {}
    /\ UNCHANGED << control_flow, app_exit, windows, window_id_to_winit, frame_data,
                    create_window_events, window_created_events, window_resized_events,
                    window_close_requested_events, changed_window_ids,
                    close_iter, close_pos, todo, panic_msg, frameVars, pureVars, in_flight,
                    closed_windows >>

NextMulti ==
    \/ MultiCreateWindow
    \/ MultiPostUpdate
    \/ MultiPrimaryRender
    \/ MultiSecondaryBegin
    \/ MultiSecondaryStep
    \/ MultiSecondaryEnd
    \/ MultiUpdateEnd

SpecMulti == InitMulti /\ [][NextMulti]_vars

MultiTypeOK ==
    /\ pc \in {"idle", "post_update", "secondary", "panicked"}
    /\ DOMAIN windows \subseteq {PrimaryId} \cup SecondaryIds
    /\ \A w \in DOMAIN windows : IsSome(windows[w].previous_frame_end)

\* ============================================================== SpecContext
\* VulkanoContext::new and Renderer::new on any enumeration of physical devices
\* and any queue families of the selected device
QueueFamilies == [graphics : BOOLEAN, compute : BOOLEAN, surface : BOOLEAN]

\* the sequences over S of length at most n
SeqsUpTo(S, n) == UNION {[1 .. k -> S] : k \in 0 .. n}

\* the runner's variables but the panic message
loopVarsButPanic ==
    << pc, control_flow, app_exit, windows, window_id_to_winit, frame_data,
       create_window_events, window_created_events, window_resized_events,
       window_close_requested_events, systems_run, changed_window_ids,
       close_iter, close_pos, todo >>

InitContext ==
    /\ LoopInit /\ FrameInit /\ ObsInit /\ NoVideoMode /\ SideInit
    /\ overflow_checks = TRUE
    /\ physical_devices \in SeqsUpTo(DeviceTypes, MaxDevices)
    /\ physical_device = None
    /\ queue_families = << >>
    /\ context = None
    /\ ctx_pc = "new"

\* new(): create_vk_instance, create_vk_debug_callback and the selection of
\* the physical device
ContextSelectDevice ==
    /\ ctx_pc = "new"
    /\ \E instance_ok \in BOOLEAN :
          LET selected == SelectPhysicalDevice(physical_devices)
          IN  IF ~instance_ok
              THEN /\ ctx_pc' = "panicked"
                   /\ panic_msg' = "Failed to create instance"
                   /\ UNCHANGED physical_device
              ELSE IF ~IsSome(selected)
              THEN /\ ctx_pc' = "panicked"
                   /\ panic_msg' = "unwrap on None: min_by_key"
                   /\ UNCHANGED physical_device
              ELSE /\ ctx_pc' = "selected"
                   /\ physical_device' = selected
                   /\ UNCHANGED panic_msg
    /\ UNCHANGED << physical_devices, queue_families, context, videoVars, sideVars,
                    loopVarsButPanic, frameVars, obsVars >>

\* what create_device leaves behind
DeviceCreated(families, c) ==
    /\ queue_families' = families
    /\ context' = c.context
    /\ ctx_pc' = IF c.panic = "" THEN "built" ELSE "panicked"
    /\ panic_msg' = c.panic

\* VulkanoContext::new from `// Create device` on
ContextCreateDevice ==
    /\ ctx_pc = "selected"
    /\ \E families \in SeqsUpTo(QueueFamilies, MaxFamilies), device_ok \in BOOLEAN :
          DeviceCreated(families, CreateDevice(families, FALSE, device_ok))
    /\ UNCHANGED << physical_devices, physical_device, videoVars, sideVars,
                    loopVarsButPanic, frameVars, obsVars >>

\* Renderer::new from `// Create rendering surface from window` to the end of
\* create_device
RendererCreateDevice ==
    /\ ctx_pc = "selected"
    /\ \E surface_ok \in BOOLEAN :
          IF ~surface_ok
          THEN /\ ctx_pc' = "panicked"
               /\ panic_msg' = "unwrap on Err: create_vk_surface_from_handle"
               /\ UNCHANGED << queue_families, context >>
          ELSE \E families \in SeqsUpTo(QueueFamilies, MaxFamilies), device_ok \in BOOLEAN :
                  DeviceCreated(families, CreateDevice(families, TRUE, device_ok))
    /\ UNCHANGED << physical_devices, physical_device, videoVars, sideVars,
                    loopVarsButPanic, frameVars, obsVars >>

NextContext ==
    \/ ContextSelectDevice
    \/ ContextCreateDevice
    \/ RendererCreateDevice

SpecContext == InitContext /\ [][NextContext]_vars

ContextTypeOK ==
    /\ ctx_pc \in {"new", "selected", "built", "panicked"}
    /\ Len(physical_devices) <= MaxDevices
    /\ Len(queue_families) <= MaxFamilies
    /\ IsSome(physical_device) => Unwrap(physical_device) \in 1 .. Len(physical_devices)
    /\ (ctx_pc = "built") = IsSome(context)

\* ================================================================ SpecVideo
\* get_fitting_videomode and get_best_videomode on any monitor
VideoModeSet ==
    [width : {800, 1920}, height : {600, 1080}, refresh_rate : {60, 144}, bit_depth : {32}]
    \cup {[width |-> 800, height |-> 600, refresh_rate |-> 144, bit_depth |-> 24],
          [width |-> 3840, height |-> 2160, refresh_rate |-> 30, bit_depth |-> 32]}

\* the sizes a window descriptor asks for
RequestedSizes == [width : {800, 1360, 1920}, height : {600, 840, 1080}]

InitVideo ==
    /\ LoopInit /\ FrameInit /\ ObsInit /\ ExampleContext /\ SideInit
    /\ overflow_checks = TRUE
    /\ video_modes \in SeqsUpTo(VideoModeSet, MaxModes)
    /\ requested \in RequestedSizes
    /\ fitting_mode = None
    /\ best_mode = None

\* a call of get_fitting_videomode(monitor, width, height)
FittingVideomodeCall ==
    /\ panic_msg = "" /\ fitting_mode = None
    /\ LET first == GetFittingVideomode(video_modes, requested.width, requested.height)
       IN  IF IsSome(first)
           THEN fitting_mode' = first /\ UNCHANGED panic_msg
           ELSE /\ panic_msg' = "get_fitting_videomode: unwrap on None"
                /\ UNCHANGED fitting_mode
    /\ UNCHANGED << video_modes, requested, best_mode, ctxVars, sideVars,
                    loopVarsButPanic, frameVars, obsVars >>

\* a call of get_best_videomode(monitor)
BestVideomodeCall ==
    /\ panic_msg = "" /\ best_mode = None
    /\ LET first == GetBestVideomode(video_modes)
       IN  IF IsSome(first)
           THEN best_mode' = first /\ UNCHANGED panic_msg
           ELSE /\ panic_msg' = "get_best_videomode: unwrap on None"
                /\ UNCHANGED best_mode
    /\ UNCHANGED << video_modes, requested, fitting_mode, ctxVars, sideVars,
                    loopVarsButPanic, frameVars, obsVars >>

NextVideo ==
    \/ FittingVideomodeCall
    \/ BestVideomodeCall

SpecVideo == InitVideo /\ [][NextVideo]_vars

VideoTypeOK ==
    /\ Len(video_modes) <= MaxModes
    /\ IsSome(fitting_mode) => Unwrap(fitting_mode) \in Range(video_modes)
    /\ IsSome(best_mode) => Unwrap(best_mode) \in Range(video_modes)

\* =================================================================== claims
\* the step is an iteration of pre_render_setup_system that calls start_frame
\* on w's renderer
StartFrameCalled(w) ==
    pc = "render_start" /\ w \in todo /\ w \notin todo' /\ HasVulkanoWindow(w)

\* C1: for every window, start_frame is never invoked while the renderer's
\* previous_frame_end slot is empty (a finish_frame lies between two successful
\* start_frame calls on the same renderer).
C1_StartFrameNeverOnEmptySlot ==
    [][\A w \in WindowIds :
          StartFrameCalled(w) => IsSome(windows[w].previous_frame_end)]_vars

\* the step takes w's `before` token in main_render_system
BeforeConsumed(w) == pc = "render" /\ w \in todo /\ w \notin todo'
\* the step takes w's `after` token in post_render_system
AfterConsumed(w) == pc = "render_finish" /\ w \in todo /\ w \notin todo'

\* a non-empty slot of w's entry is kept by the step unless its consumer takes it
SlotsKept(w) ==
    /\ (IsSome(frame_data[w].before) /\ ~BeforeConsumed(w)) =>
          (w \in DOMAIN frame_data' /\ frame_data'[w].before = frame_data[w].before)
    /\ (IsSome(frame_data[w].after) /\ ~AfterConsumed(w)) =>
          (w \in DOMAIN frame_data' /\ frame_data'[w].after = frame_data[w].after)

\* C2: a non-empty `before` or `after` slot of a registry entry is never
\* overwritten or discarded, and at every frame boundary (after
\* post_render_system) both slots of every entry are empty.
C2_TokensConsumedExactlyOnce ==
    /\ [](pc = "idle" =>
            \A w \in DOMAIN frame_data :
               ~IsSome(frame_data[w].before) /\ ~IsSome(frame_data[w].after))
    /\ [][\A w \in DOMAIN frame_data : SlotsKept(w)]_vars

\* C3: when exit_on_window_close_system removes the renderer of a window, the
\* window's registry entry is already gone before that step and stays gone.
C3_EntryRemovedBeforeRenderer ==
    [][\A w \in WindowIds :
          (w \in DOMAIN windows /\ w \notin DOMAIN windows') =>
             (w \notin DOMAIN frame_data /\ w \notin DOMAIN frame_data')]_vars

\* C3 witness: the close of a secondary window has just been handled, renderer
\* and entry are both gone
C3_Witness ==
    /\ pc = "closing" /\ close_pos = "next"
    /\ \E w \in window_id_to_winit \ {PrimaryId} :
          w \notin DOMAIN windows /\ w \notin DOMAIN frame_data

\* C4: in every state, under either order of update_on_resize_system and
\* exit_on_window_close_system, a registry entry exists only for a window that
\* has a renderer; a resize handled after the close does not re-create it.
C4_EntryOnlyWhileRenderer ==
    \A w \in DOMAIN frame_data : HasVulkanoWindow(w)

\* C4 witness: update_on_resize_system ran after exit_on_window_close_system and
\* handled an event of a window whose renderer is closed
C4_Witness ==
    /\ pc = "preupdate" /\ systems_run = << "exit", "resize" >>
    /\ \E w \in Range(changed_window_ids) :
          w \notin DOMAIN windows /\ w \notin DOMAIN frame_data

\* C5: swap_chain and final_views of every renderer come from the same
\* creation, and a recreation on any reachable renderer either replaces both
\* and clears the flag or changes nothing.
C5_SwapchainAndViewsTogether ==
    \A w \in DOMAIN windows :
       /\ windows[w].swap_chain = windows[w].final_views
       /\ \A rec \in RecreateOutcomes \ {"error"} :
             LET n == RecreateSwapchainAndViews(windows[w], rec).renderer
             IN  \/ n = windows[w]
                 \/ /\ n.swap_chain # windows[w].swap_chain
                    /\ n.final_views = n.swap_chain
                    /\ ~n.recreate_swapchain

\* C5 witness: start_frame has returned a token on a recreated swapchain
C5_Witness ==
    \E w \in DOMAIN windows :
       /\ w \in DOMAIN frame_data /\ IsSome(frame_data[w].before)
       /\ windows[w].swap_chain # 0
       /\ windows[w].final_views = windows[w].swap_chain

\* the step is a start_frame call on w that returned Err
StartFrameErr(w) ==
    /\ StartFrameCalled(w)
    /\ pc' = "render_start"
    /\ ~IsSome(frame_data'[w].before)

\* C10: a start_frame call that reports out-of-date sets the dirty flag and
\* leaves image_index and previous_frame_end as they were: a non-empty
\* previous_frame_end stays non-empty.
C10_OutOfDateAcquiresNothing ==
    [][\A w \in WindowIds :
          StartFrameErr(w) =>
             /\ windows'[w].recreate_swapchain
             /\ windows'[w].image_index = windows[w].image_index
             /\ windows'[w].previous_frame_end = windows[w].previous_frame_end
             /\ (IsSome(windows[w].previous_frame_end) =>
                    IsSome(windows'[w].previous_frame_end))]_vars

\* C10 witness: start_frame returned Err on a renderer that holds a
\* previous_frame_end token and a non-zero image_index
C10_Witness ==
    /\ pc = "render_start"
    /\ \E w \in (DOMAIN frame_data) \ todo :
          /\ HasVulkanoWindow(w)
          /\ ~IsSome(frame_data[w].before)
          /\ windows[w].recreate_swapchain
          /\ IsSome(windows[w].previous_frame_end)
          /\ windows[w].image_index # 0

\* C6: on every frame the first next_pass call yields a Deferred pass, the
\* second, when its GPU calls succeed, yields Finished carrying a token, and the
\* third yields nothing.
C6_DeferredFinishedNothing ==
    /\ calls = 1 => (last_pass.kind = "Deferred" /\ ~IsSome(last_pass.token))
    /\ (calls = 2 /\ last_pass.kind # "Err") =>
          (last_pass.kind = "Finished" /\ IsSome(last_pass.token))
    /\ calls = 3 => (last_pass.kind = "Nothing" /\ ~IsSome(last_pass.token))

\* C6 witness: the third call on a frame whose second call yielded Finished
C6_Witness ==
    calls = 3 /\ finished_at = 2 /\ last_pass.kind = "Nothing"

\* C7: once next_pass has yielded Finished, every further call on the frame
\* yields nothing, however many calls follow.
C7_NothingAfterFinished ==
    (finished_at # 0 /\ calls > finished_at) => last_pass.kind = "Nothing"

\* C8: once Finished has been yielded no next_pass call yields a Deferred pass
\* and no step appends commands to the frame's command buffer.
C8_PassStateOnlyAdvances ==
    [][finished_at # 0 =>
          /\ (calls' = calls + 1 => last_pass'.kind # "Deferred")
          /\ ((IsSome(frame) /\ IsSome(frame')) =>
                 Commands(Unwrap(frame')) <= Commands(Unwrap(frame)))]_vars

SuboptimalAcquire(c) ==
    c.rec # "error" /\ c.acq.kind = "ok" /\ c.acq.suboptimal

\* the swapchain of renderer r once the recreation of record c, if any, is done
SwapchainAfterRecreate(r, c) ==
    IF c.rec = "ok" THEN (r.swap_chain + 1) % NumCreations ELSE r.swap_chain

\* C11: a start_frame call whose acquisition is suboptimal sets the dirty flag,
\* recreates nothing after the acquisition and skips the frame: no token is
\* returned.
C11_SuboptimalSkipsFrame ==
    [][\A w \in WindowIds :
          (StartFrameCalled(w) /\ SuboptimalAcquire(started'[w])) =>
             /\ windows'[w].recreate_swapchain
             /\ windows'[w].swap_chain = SwapchainAfterRecreate(windows[w], started'[w])
             /\ ~IsSome(frame_data'[w].before)]_vars

\* C11 amended: a start_frame call whose acquisition is suboptimal sets the
\* dirty flag, recreates nothing after the acquisition and does not skip the
\* frame: it never returns an error, and when it returns it has stored the
\* acquired image's index and returns a token.
C11_SuboptimalSetsFlagAndProceeds ==
    [][\A w \in WindowIds :
          (StartFrameCalled(w) /\ SuboptimalAcquire(started'[w])) =>
             /\ windows'[w].recreate_swapchain
             /\ windows'[w].swap_chain = SwapchainAfterRecreate(windows[w], started'[w])
             /\ started'[w].outcome # "Err"
             /\ started'[w].outcome = "Ok" =>
                   /\ IsSome(frame_data'[w].before)
                   /\ windows'[w].image_index = started'[w].acq.image_num]_vars

\* C11 witness: a suboptimal acquisition returned a token and left the flag set
C11_Witness ==
    /\ pc = "render_start"
    /\ \E w \in DOMAIN started :
          /\ SuboptimalAcquire(started[w]) /\ started[w].outcome = "Ok"
          /\ started[w].rec = "none"
          /\ IsSome(frame_data[w].before)
          /\ windows[w].recreate_swapchain

\* C12: a start_frame call whose recreation fails with unsupported dimensions
\* does not abort in the recreation, leaves swap_chain, final_views and the
\* interim image targets as they were and returns with the dirty flag set.
C12_UnsupportedKeepsSwapchainAndFlag ==
    [][\A w \in WindowIds :
          (StartFrameCalled(w) /\ started'[w].rec = "unsupported_dimensions") =>
             /\ windows[w].recreate_swapchain
             /\ windows'[w].recreate_swapchain
             /\ windows'[w].swap_chain = windows[w].swap_chain
             /\ windows'[w].final_views = windows[w].final_views
             /\ windows'[w].interim_image_views = windows[w].interim_image_views
             /\ panic_msg' # "Failed to recreate swapchain"]_vars

\* C12 witness: a recreation failed with unsupported dimensions, the call
\* returned and the flag is still set
C12_Witness ==
    /\ pc = "render_start"
    /\ \E w \in DOMAIN started :
          /\ started[w].rec = "unsupported_dimensions"
          /\ started[w].outcome = "Ok"
          /\ ~started[w].acq.suboptimal
          /\ windows[w].recreate_swapchain

\* C13: a start_frame call whose recreation fails with unsupported dimensions
\* reports the failure: it returns an error, acquires no image and returns no
\* token.
C13_UnsupportedSkipsFrame ==
    [][\A w \in WindowIds :
          (StartFrameCalled(w) /\ started'[w].rec = "unsupported_dimensions") =>
             /\ started'[w].outcome = "Err"
             /\ ~IsSome(frame_data'[w].before)
             /\ windows'[w].image_index = windows[w].image_index]_vars

\* the step is an iteration of post_render_system that calls finish_frame on
\* w's renderer
FinishFrameCalled(w) ==
    /\ pc = "render_finish" /\ w \in todo /\ w \notin todo'
    /\ w \notin DOMAIN finished /\ w \in DOMAIN finished'

\* C14: finish_frame always returns; on an out-of-date flush it sets the dirty
\* flag and stores a fresh completed token, on any other flush failure it
\* stores a fresh completed token and leaves the dirty flag as it was.
C14_FinishFrameSwallowsFailures ==
    [][\A w \in WindowIds :
          FinishFrameCalled(w) =>
             /\ pc' = "render_finish" /\ panic_msg' = panic_msg
             /\ finished'[w].flush = "out_of_date" =>
                   /\ windows'[w].recreate_swapchain
                   /\ windows'[w].previous_frame_end = Some(NowFuture)
             /\ finished'[w].flush = "error" =>
                   /\ windows'[w].recreate_swapchain = windows[w].recreate_swapchain
                   /\ windows'[w].previous_frame_end = Some(NowFuture)]_vars

\* C14 witness: a flush failure other than out-of-date was swallowed on a
\* renderer whose flag is clear
C14_Witness ==
    /\ pc = "render_finish"
    /\ \E w \in DOMAIN finished :
          /\ finished[w].flush = "error"
          /\ ~windows[w].recreate_swapchain
          /\ windows[w].previous_frame_end = Some(NowFuture)

\* C15: after finish_frame has returned, previous_frame_end holds a completed
\* token whatever the outcome of the flush and of the wait.
C15_TokenCompletedAfterFinish ==
    \A w \in DOMAIN finished :
       (w \in DOMAIN windows /\ pc = "render_finish") =>
          /\ IsSome(windows[w].previous_frame_end)
          /\ Completed(Unwrap(windows[w].previous_frame_end))

\* C15 amended: after finish_frame has returned, previous_frame_end holds a
\* completed token on every path except the one where the wait on the fence
\* reports an error; there it holds the flushed present future, not known to
\* be complete.
C15_TokenCompletedUnlessWaitFailed ==
    \A w \in DOMAIN finished :
       (w \in DOMAIN windows /\ pc = "render_finish") =>
          /\ IsSome(windows[w].previous_frame_end)
          /\ finished[w].flush # "ok_wait_failed" =>
                Completed(Unwrap(windows[w].previous_frame_end))
          /\ finished[w].flush = "ok_wait_failed" =>
                windows[w].previous_frame_end = Some(PresentFuture(FALSE))

\* C15 witness: finish_frame returned after a successful flush and wait
C15_Witness ==
    /\ pc = "render_finish"
    /\ \E w \in DOMAIN finished :
          /\ finished[w].flush = "ok"
          /\ windows[w].previous_frame_end = Some(PresentFuture(TRUE))

\* the step is a run of update_on_resize_system
ResizeSystemRuns ==
    pc = "preupdate" /\ systems_run' = Append(systems_run, "resize")

\* C16: update_on_resize_system's resize calls only set the dirty flag of the
\* renderers they are made on and change no other field of any renderer; the
\* swapchain of a renderer changes only in a start_frame call.
C16_ResizeOnlySetsFlag ==
    [][/\ ResizeSystemRuns =>
             \A w \in DOMAIN windows :
                /\ w \in DOMAIN windows'
                /\ windows'[w] =
                      IF w \in Range(changed_window_ids')
                      THEN [windows[w] EXCEPT !.recreate_swapchain = TRUE]
                      ELSE windows[w]
       /\ \A w \in (DOMAIN windows) \cap (DOMAIN windows') :
             (\/ windows'[w].swap_chain # windows[w].swap_chain
              \/ windows'[w].final_views # windows[w].final_views) =>
                (StartFrameCalled(w) /\ windows[w].recreate_swapchain)]_vars

\* C16 witness: resize was called on a renderer that has presented frames; its
\* flag is set and its swapchain is still the first creation
C16_Witness ==
    /\ pc = "preupdate" /\ "resize" \in Range(systems_run)
    /\ \E w \in Range(changed_window_ids) \cap DOMAIN windows :
          /\ windows[w].recreate_swapchain
          /\ windows[w].swap_chain = 0 /\ windows[w].final_views = 0
          /\ windows[w].previous_frame_end = Some(PresentFuture(TRUE))

\* the step is the iteration of main_render_system on the primary window's
\* entry, entered with its `before` slot empty
MainRenderOnEmptyBefore ==
    /\ pc = "render" /\ PrimaryId \in todo /\ PrimaryId \notin todo'
    /\ HasVulkanoWindow(PrimaryId)
    /\ ~IsSome(frame_data[PrimaryId].before)

\* C17: on every registry entry, the first take of `before` yields the stored
\* token and a second take yields empty; main_render_system on an entry whose
\* `before` is empty changes neither the entry nor a renderer and does not
\* panic, whatever the GPU would answer.
C17_SecondTakeYieldsEmpty ==
    /\ [](\A w \in DOMAIN frame_data :
            LET first == TakeBefore(frame_data[w])
                second == TakeBefore(first.data)
            IN  /\ first.token = frame_data[w].before
                /\ second.token = None
                /\ second.data = first.data
                /\ \A env \in MainRenderEnvs :
                      MainRender(first.data, env) = [data |-> first.data, panic |-> FALSE])
    /\ [][MainRenderOnEmptyBefore =>
             /\ frame_data' = frame_data
             /\ windows' = windows
             /\ pc' = "render" /\ panic_msg' = panic_msg]_vars

\* C17 witness: main_render_system has taken the primary window's token and
\* stored `after`; the entry's `before` is now empty
C17_Witness ==
    /\ pc = "render" /\ PrimaryId \notin todo
    /\ PrimaryId \in DOMAIN started /\ started[PrimaryId].outcome = "Ok"
    /\ PrimaryId \in DOMAIN frame_data
    /\ ~IsSome(frame_data[PrimaryId].before)
    /\ IsSome(frame_data[PrimaryId].after)

\* C18: every finish_frame call follows a start_frame call that succeeded on
\* the same renderer in the same frame, with no finish_frame in between (the
\* renderer's previous_frame_end is still taken), and presents the image index
\* that acquisition returned.
C18_FinishFollowsSuccessfulStart ==
    [][\A w \in WindowIds :
          FinishFrameCalled(w) =>
             /\ w \in DOMAIN started /\ started[w].outcome = "Ok"
             /\ ~IsSome(windows[w].previous_frame_end)
             /\ finished'[w].image_index = started[w].acq.image_num]_vars

\* C18 witness: a frame acquired image 1 and finish_frame presented it
C18_Witness ==
    /\ pc = "render_finish"
    /\ \E w \in (DOMAIN finished) \cap (DOMAIN started) :
          /\ started[w].outcome = "Ok"
          /\ started[w].acq.image_num = 1
          /\ finished[w].image_index = 1

\* C19: once exit_on_window_close_system has handled the close of a
\* non-primary window, no step is a start_frame or finish_frame call for that
\* window.
C19_NoFrameAfterClose ==
    [][\A w \in closed_windows :
          /\ w \in DOMAIN started' => (w \in DOMAIN started /\ started'[w] = started[w])
          /\ w \in DOMAIN finished' => (w \in DOMAIN finished /\ finished'[w] = finished[w])]_vars

\* C19 witness: a frame is presented after the close of a window that had
\* started frames was handled, and a later event of that window was handled
C19_Witness ==
    /\ pc = "render_finish" /\ PrimaryId \in DOMAIN finished
    /\ \E w \in closed_windows :
          /\ w # PrimaryId
          /\ w \notin DOMAIN started
          /\ w \notin DOMAIN windows /\ w \notin DOMAIN frame_data

\* C20: when the secondary-window render system has returned, a failed
\* acquisition of one window has kept no other window from its frame: every
\* secondary window was acquired in this update, and every window whose
\* acquisition succeeded was presented.
C20_FailureSkipsOnlyThatWindow ==
    (pc = "post_update" /\ "secondary" \in Range(systems_run)) =>
       \A w \in (DOMAIN windows) \ {PrimaryId} :
          /\ w \in DOMAIN started
          /\ started[w].outcome = "Ok" => w \in DOMAIN finished

\* the step is the iteration of main_render_system that renders w
MainRenderCalled(w) ==
    pc = "render" /\ w \in todo /\ w \notin todo' /\ w \in rendered'

\* no render step of the current frame has been made
NoRenderStepYet == started = EmptyMap /\ rendered = {} /\ finished = EmptyMap

\* C21: in every frame the steps of the update logic come before every render
\* step; pre-render runs on a window at most once and before any main-render
\* or post-render step of the frame, main-render at most once, after the
\* window's pre-render and before any post-render step, post-render at most
\* once and after the window's pre-render and main-render.
C21_RenderStepsInOrder ==
    [][/\ pc \in {"preupdate", "closing"} => NoRenderStepYet
       /\ \A w \in WindowIds :
             /\ StartFrameCalled(w) =>
                   (w \notin DOMAIN started /\ rendered = {} /\ finished = EmptyMap)
             /\ MainRenderCalled(w) =>
                   (w \notin rendered /\ w \in DOMAIN started /\ finished = EmptyMap)
             /\ FinishFrameCalled(w) =>
                   (w \notin DOMAIN finished /\ w \in rendered /\ w \in DOMAIN started)]_vars

\* C21 witness: a frame of two windows in which the primary window has gone
\* through pre-render, main-render and post-render
C21_Witness ==
    /\ pc = "render_finish"
    /\ DOMAIN started = WindowIds
    /\ rendered = {PrimaryId}
    /\ PrimaryId \in DOMAIN finished

\* C22: once a next_pass call on a frame has returned an error, every later
\* call on that frame yields nothing: the failed step is not repeated and no
\* Finished token is produced for the frame.
C22_FailedStepNotRetried ==
    [][(had_err /\ calls' = calls + 1) =>
          /\ last_pass'.kind = "Nothing"
          /\ ~IsSome(last_pass'.token)
          /\ Unwrap(frame').command_buffer_builder = Unwrap(frame).command_buffer_builder
          /\ Unwrap(frame').before_main_cb_future = Unwrap(frame).before_main_cb_future]_vars

\* the device types from the most to the least preferred
TypePriority == << "DiscreteGpu", "IntegratedGpu", "VirtualGpu", "Cpu", "Other" >>

\* type t1 is strictly preferred to type t2
Preferred(t1, t2) ==
    \E i, j \in 1 .. Len(TypePriority) :
       i < j /\ TypePriority[i] = t1 /\ TypePriority[j] = t2

\* the selection of the physical device has been made on a non-empty
\* enumeration
DeviceSelectionMade ==
    /\ physical_devices # << >>
    /\ ctx_pc # "new"
    /\ panic_msg # "Failed to create instance"

\* C23: on every non-empty enumeration of physical devices the selection
\* succeeds, no enumerated device has a type strictly preferred to that of the
\* selected device, and no device of the selected device's type comes before it
\* in the enumeration.
C23_FirstDeviceOfBestType ==
    DeviceSelectionMade =>
       /\ IsSome(physical_device)
       /\ \A j \in 1 .. Len(physical_devices) :
             /\ ~Preferred(physical_devices[j], physical_devices[Unwrap(physical_device)])
             /\ physical_devices[j] = physical_devices[Unwrap(physical_device)] =>
                   Unwrap(physical_device) <= j

\* C23 witness: of two discrete GPUs enumerated after an integrated one the
\* first is selected
C23_Witness ==
    /\ ctx_pc = "selected"
    /\ physical_devices = << "IntegratedGpu", "DiscreteGpu", "DiscreteGpu" >>
    /\ physical_device = Some(2)

\* the queue families of the selected device, other than the graphics family
\* create_device chose, that support compute
OtherComputeFamilies ==
    { i \in 1 .. Len(queue_families) :
        i # Unwrap(context).graphics_queue.family /\ queue_families[i].compute }

NoGraphicsFamily ==
    /\ ctx_pc \in {"built", "panicked"}
    /\ IsSome(physical_device)
    /\ panic_msg # "unwrap on Err: create_vk_surface_from_handle"
    /\ \A i \in 1 .. Len(queue_families) : ~queue_families[i].graphics

\* C25: when the selected physical device has no queue family that supports
\* graphics, construction panics and produces no context; the selection is made
\* once: the selected device never changes, and after the panic no step is
\* taken.
C25_NoGraphicsFamilyIsFatal ==
    /\ [](NoGraphicsFamily =>
            /\ ctx_pc = "panicked"
            /\ context = None
            /\ panic_msg = "unwrap on None: graphics queue family")
    /\ [][/\ IsSome(physical_device) => physical_device' = physical_device
          /\ ctx_pc # "panicked"]_vars

\* C25 witness: construction has panicked on a selected device without a
\* graphics family although another device was enumerated
C25_Witness ==
    /\ NoGraphicsFamily
    /\ Len(physical_devices) >= 2
    /\ Len(queue_families) >= 1
    /\ queue_families[1].compute
    /\ ctx_pc = "panicked"

\* the keys get_fitting_videomode orders a mode by, for the requested size
WidthDistance(m) == AbsDiff(m.width, requested.width)
HeightDistance(m) == AbsDiff(m.height, requested.height)

\* mode a comes strictly before mode b under (width distance ascending, height
\* distance ascending, refresh rate descending)
FitsBetter(a, b) ==
    \/ WidthDistance(a) < WidthDistance(b)
    \/ /\ WidthDistance(a) = WidthDistance(b)
       /\ \/ HeightDistance(a) < HeightDistance(b)
          \/ /\ HeightDistance(a) = HeightDistance(b)
             /\ a.refresh_rate > b.refresh_rate

\* the example of the tie-break: the three modes and the two requested sizes
ExampleModes ==
    << [width |-> 800, height |-> 600, refresh_rate |-> 60, bit_depth |-> 32],
       [width |-> 800, height |-> 600, refresh_rate |-> 144, bit_depth |-> 32],
       [width |-> 1920, height |-> 1080, refresh_rate |-> 60, bit_depth |-> 32] >>

\* C26: on a non-empty list of modes get_fitting_videomode returns the mode at
\* the first position no other mode strictly precedes under (width distance,
\* height distance, refresh rate descending): a minimal mode, and the earliest
\* in enumeration order of the modes equal to it on the three keys; on the
\* example list it returns (800,600,144) for (800,600) and (1920,1080,60) for
\* (1920,1080).
C26_FittingModeIsLexMinimal ==
    (video_modes # << >> /\ (IsSome(fitting_mode) \/ panic_msg = "get_fitting_videomode: unwrap on None")) =>
       /\ IsSome(fitting_mode)
       /\ \E i \in 1 .. Len(video_modes) :
             /\ video_modes[i] = Unwrap(fitting_mode)
             /\ \A j \in 1 .. Len(video_modes) : ~FitsBetter(video_modes[j], video_modes[i])
             /\ \A j \in 1 .. (i - 1) : FitsBetter(video_modes[i], video_modes[j])
       /\ (video_modes = ExampleModes /\ requested = [width |-> 800, height |-> 600]) =>
             Unwrap(fitting_mode) = ExampleModes[2]
       /\ (video_modes = ExampleModes /\ requested = [width |-> 1920, height |-> 1080]) =>
             Unwrap(fitting_mode) = ExampleModes[3]

\* C26 witness: the example list with (800,600) requested has given
\* (800,600,144)
C26_Witness ==
    /\ video_modes = ExampleModes
    /\ requested = [width |-> 800, height |-> 600]
    /\ fitting_mode = Some(ExampleModes[2])

\* mode a is strictly greater than mode b under (width, height, refresh rate)
LargerMode(a, b) ==
    \/ a.width > b.width
    \/ /\ a.width = b.width
       /\ \/ a.height > b.height
          \/ a.height = b.height /\ a.refresh_rate > b.refresh_rate

\* the example of the best mode
ExampleBestModes ==
    << [width |-> 1920, height |-> 1080, refresh_rate |-> 60, bit_depth |-> 32],
       [width |-> 1920, height |-> 1080, refresh_rate |-> 144, bit_depth |-> 32],
       [width |-> 3840, height |-> 2160, refresh_rate |-> 30, bit_depth |-> 32] >>

\* C27: on a non-empty list of modes get_best_videomode returns a mode of the
\* list that no mode of the list exceeds under (width, height, refresh rate):
\* a larger resolution wins over any refresh rate; on the example list it
\* returns (3840,2160,30).
C27_BestModeIsLexMaximal ==
    (video_modes # << >> /\ (IsSome(best_mode) \/ panic_msg = "get_best_videomode: unwrap on None")) =>
       /\ IsSome(best_mode)
       /\ Unwrap(best_mode) \in Range(video_modes)
       /\ \A j \in 1 .. Len(video_modes) : ~LargerMode(video_modes[j], Unwrap(best_mode))
       /\ video_modes = ExampleBestModes => Unwrap(best_mode) = ExampleBestModes[3]

\* C27 witness: the example list has given (3840,2160,30)
C27_Witness ==
    /\ video_modes = ExampleBestModes
    /\ best_mode = Some(ExampleBestModes[3])

\* the panics of the two functions
VideoModePanics ==
    {"get_fitting_videomode: unwrap on None", "get_best_videomode: unwrap on None"}

\* C28: when the monitor reports no video mode neither function returns a
\* mode and a call of either panics; when it reports at least one mode both
\* return a mode and no call panics.
C28_NoModeIsFatal ==
    /\ [](IF video_modes = << >>
          THEN /\ fitting_mode = None /\ best_mode = None
               /\ GetFittingVideomode(video_modes, requested.width, requested.height) = None
               /\ GetBestVideomode(video_modes) = None
          ELSE /\ panic_msg = ""
               /\ IsSome(GetFittingVideomode(video_modes, requested.width, requested.height))
               /\ IsSome(GetBestVideomode(video_modes)))
    /\ [][IF video_modes = << >>
          THEN panic_msg' \in VideoModePanics
          ELSE /\ fitting_mode' # fitting_mode => IsSome(fitting_mode')
               /\ best_mode' # best_mode => IsSome(best_mode')]_vars

\* C28 witness: get_fitting_videomode has panicked on a monitor without modes
C28_Witness ==
    /\ video_modes = << >>
    /\ panic_msg = "get_fitting_videomode: unwrap on None"
    /\ fitting_mode = None

\* C29: a start_frame call that succeeds leaves previous_frame_end empty, every
\* finish_frame call leaves it non-empty whatever the flush reports, and in
\* every state the previous_frame_end of a renderer is empty exactly when a
\* frame acquired on it has not been handed to finish_frame.
C29_SlotEmptyWhileFrameInFlight ==
    /\ [](\A w \in DOMAIN windows :
             ~IsSome(windows[w].previous_frame_end) <=> w \in in_flight)
    /\ [][\A w \in WindowIds :
             /\ (StartFrameCalled(w) /\ started'[w].outcome = "Ok") =>
                   ~IsSome(windows'[w].previous_frame_end)
             /\ FinishFrameCalled(w) => IsSome(windows'[w].previous_frame_end)]_vars

\* C29 witness: a frame of the primary window, acquired on image 1, is in
\* flight in the render stage
C29_Witness ==
    /\ pc = "render"
    /\ PrimaryId \in in_flight
    /\ ~IsSome(windows[PrimaryId].previous_frame_end)
    /\ IsSome(frame_data[PrimaryId].before)
    /\ windows[PrimaryId].image_index = 1

\* the step is a start_frame call on w made with the dirty flag set, whose
\* recreation met supported dimensions and succeeded
StartFrameRecreated(w) ==
    /\ StartFrameCalled(w)
    /\ windows[w].recreate_swapchain
    /\ started'[w].rec = "ok"

\* C30: a start_frame call made with the dirty flag set on supported
\* dimensions recreates swapchain and views before it acquires: the swapchain
\* handed to the acquisition is the new one, which the renderer holds on
\* return, the image_index recorded is the acquired image's, and on return the
\* dirty flag is set exactly when that acquisition reported out-of-date or
\* suboptimal.
C30_RecreateBeforeAcquire ==
    [][\A w \in WindowIds :
          StartFrameRecreated(w) =>
             /\ windows'[w].swap_chain # windows[w].swap_chain
             /\ windows'[w].final_views = windows'[w].swap_chain
             /\ started'[w].acquired_from = windows'[w].swap_chain
             /\ started'[w].outcome = "Ok" =>
                   windows'[w].image_index = started'[w].acq.image_num
             /\ started'[w].outcome # "Panic" =>
                   (windows'[w].recreate_swapchain <=>
                       (started'[w].acq.kind = "out_of_date" \/ started'[w].acq.suboptimal))]_vars

\* C30 witness: a start_frame call recreated the swapchain, acquired image 1 of
\* the new swapchain and returned a token with the flag clear
C30_Witness ==
    /\ pc = "render_start"
    /\ \E w \in DOMAIN started :
          /\ started[w].rec = "ok" /\ started[w].outcome = "Ok"
          /\ started[w].acq.image_num = 1 /\ ~started[w].acq.suboptimal
          /\ windows[w].swap_chain = 1 /\ started[w].acquired_from = 1
          /\ windows[w].image_index = 1
          /\ ~windows[w].recreate_swapchain
          /\ IsSome(frame_data[w].before)

\* =========================================================== SpecRecreate
\* One renderer driven frame after frame by a caller that follows the render
\* orchestration of start_frame's doc comment: start_frame, then finish_frame
\* with the token when start_frame returned one, nothing when it returned Err.
\* pc is "idle" between frames, "frame" between an Ok start_frame and its
\* finish_frame, "skipped" after an Err, "panicked" after a panic.

\* the caller of Renderer::resize (lib.rs update_on_resize_system)
RecreateResize ==
    /\ pc = "idle"
    /\ windows' = [windows EXCEPT ![PrimaryId] = Resize(@)]
    /\ UNCHANGED << pc, control_flow, app_exit, window_id_to_winit, frame_data,
                    create_window_events, window_created_events, window_resized_events,
                    window_close_requested_events, systems_run, changed_window_ids,
                    close_iter, close_pos, todo, panic_msg, frameVars, obsVars, pureVars >>

\* a start_frame call; started records what the call met
RecreateStartFrame ==
    /\ pc = "idle"
    /\ \E e \in StartFrameEnvs(windows[PrimaryId]) :
          LET s == StartFrame(windows[PrimaryId], e.rec, e.acq)
          IN  /\ windows' = [windows EXCEPT ![PrimaryId] = s.renderer]
              /\ started' = MapInsert(started, PrimaryId,
                                      StartRecord(windows[PrimaryId], e, s))
              /\ pc' = CASE s.outcome = "Ok" -> "frame"
                         [] s.outcome = "Err" -> "skipped"
                         [] OTHER -> "panicked"
              /\ panic_msg' = s.msg
    /\ UNCHANGED << control_flow, app_exit, window_id_to_winit, frame_data,
                    create_window_events, window_created_events, window_resized_events,
                    window_close_requested_events, systems_run, changed_window_ids,
                    close_iter, close_pos, todo, frameVars, pureVars,
                    finished, rendered, in_flight, closed_windows >>

\* the finish_frame call that ends a frame start_frame began
RecreateFinishFrame ==
    /\ pc = "frame"
    /\ \E flush \in FlushOutcomes :
          /\ windows' = [windows EXCEPT ![PrimaryId] = FinishFrame(@, NowFuture, flush)]
          /\ finished' = MapInsert(finished, PrimaryId,
                                   FinishRecord(windows[PrimaryId], flush))
    /\ pc' = "idle"
    /\ UNCHANGED << control_flow, app_exit, window_id_to_winit, frame_data,
                    create_window_events, window_created_events, window_resized_events,
                    window_close_requested_events, systems_run, changed_window_ids,
                    close_iter, close_pos, todo, panic_msg, frameVars, pureVars,
                    started, rendered, in_flight, closed_windows >>

\* a frame whose start_frame returned Err ends without a finish_frame call
RecreateSkipFrame ==
    /\ pc = "skipped"
    /\ pc' = "idle"
    /\ UNCHANGED << control_flow, app_exit, windows, window_id_to_winit, frame_data,
                    create_window_events, window_created_events, window_resized_events,
                    window_close_requested_events, systems_run, changed_window_ids,
                    close_iter, close_pos, todo, panic_msg, frameVars, obsVars, pureVars >>

NextRecreate ==
    \/ RecreateResize
    \/ RecreateStartFrame
    \/ RecreateFinishFrame
    \/ RecreateSkipFrame

\* the runner polls (ControlFlow::Poll), so a frame that can begin or end
\* does; nothing obliges a resize to arrive
SpecRecreate ==
    /\ Init
    /\ [][NextRecreate]_vars
    /\ WF_vars(RecreateStartFrame)
    /\ WF_vars(RecreateFinishFrame)
    /\ WF_vars(RecreateSkipFrame)

RecreateTypeOK ==
    /\ pc \in {"idle", "frame", "skipped", "panicked"}
    /\ DOMAIN windows = {PrimaryId}
    /\ windows[PrimaryId].swap_chain \in 0 .. (NumCreations - 1)
    /\ windows[PrimaryId].recreate_swapchain \in BOOLEAN
    /\ pc = "frame" <=> ~IsSome(windows[PrimaryId].previous_frame_end)

\* ------------------------------------------------------------------ C31
\* the renderer's dirty flag
Dirty == windows[PrimaryId].recreate_swapchain

\* a step that sets the dirty flag from outside: a resize, an acquisition that
\* reports out-of-date or suboptimal, a present that reports out-of-date
DirtySignal ==
    \/ RecreateResize
    \/ /\ RecreateStartFrame
       /\ started'[PrimaryId].acq.kind = "out_of_date" \/ started'[PrimaryId].acq.suboptimal
    \/ /\ RecreateFinishFrame
       /\ finished'[PrimaryId].flush = "out_of_date"

\* a start_frame call whose recreation met unsupported window dimensions
UnsupportedDimensions ==
    /\ RecreateStartFrame
    /\ started'[PrimaryId].rec = "unsupported_dimensions"

\* the last start_frame call recreated the swapchain and the flag is clear
RecreatedAndClean ==
    /\ ~Dirty
    /\ PrimaryId \in DOMAIN started
    /\ started[PrimaryId].rec = "ok"

\* C31: when start_frame keeps being called, the window dimensions are
\* eventually always supported and from some point on no resize and no
\* out-of-date or suboptimal signal arrives, a set dirty flag leads to a
\* start_frame call that recreates the swapchain and leaves the flag clear.
C31_DirtyLeadsToRecreation ==
    ( /\ []<><<RecreateStartFrame>>_vars
      /\ <>[][~UnsupportedDimensions]_vars
      /\ <>[][~DirtySignal]_vars )
    => (Dirty ~> RecreatedAndClean)

\* C31 witness: the flag was set by an out-of-date present on the second
\* swapchain, and the next start_frame recreated the swapchain and cleared it
C31_Witness ==
    /\ pc = "frame"
    /\ PrimaryId \in DOMAIN finished
    /\ finished[PrimaryId].flush = "out_of_date"
    /\ started[PrimaryId].rec = "ok"
    /\ started[PrimaryId].acquired_from = 0
    /\ ~Dirty

\* ------------------------------------------------------------------ C32
\* the number of iterations of `for id in changed_window_ids` made on w
TimesHandled(ids, w) == Cardinality({i \in 1 .. Len(ids) : ids[i] = w})

\* C32: a run of update_on_resize_system iterates over every window named by an
\* unread resize or created event exactly once and over no other window; an
\* iteration on a window that has a renderer sets that renderer's dirty flag and
\* leaves the window's registry entry with both tokens empty; a window without
\* a renderer, and a window no event names, keeps its registry entry (or the
\* lack of one) and no renderer is added, removed or otherwise changed.
C32_EachChangedWindowOnce ==
    [][ResizeSystemRuns =>
          /\ \A w \in WindowIds :
                TimesHandled(changed_window_ids', w) =
                   IF w \in Range(window_resized_events) \cup Range(window_created_events)
                   THEN 1 ELSE 0
          /\ DOMAIN windows' = DOMAIN windows
          /\ \A w \in WindowIds :
                IF w \in Range(changed_window_ids') /\ HasVulkanoWindow(w)
                THEN /\ windows'[w] = [windows[w] EXCEPT !.recreate_swapchain = TRUE]
                     /\ w \in DOMAIN frame_data'
                     /\ frame_data'[w] = EmptyFrameData
                ELSE /\ w \in DOMAIN windows => windows'[w] = windows[w]
                     /\ w \in DOMAIN frame_data' <=> w \in DOMAIN frame_data
                     /\ w \in DOMAIN frame_data => frame_data'[w] = frame_data[w]]_vars

\* C32 witness: update_on_resize_system ran, iterated once over the primary
\* window, whose flag is set and whose entry is empty, and once over a window
\* without a renderer, for which nothing was added
C32_Witness ==
    /\ pc = "preupdate" /\ "resize" \in Range(systems_run)
    /\ TimesHandled(changed_window_ids, PrimaryId) = 1
    /\ windows[PrimaryId].recreate_swapchain
    /\ frame_data[PrimaryId] = EmptyFrameData
    /\ \E w \in Range(changed_window_ids) :
          w \notin DOMAIN windows /\ w \notin DOMAIN frame_data

\* ------------------------------------------------------------------ C33
\* the step belongs to the iteration of exit_on_window_close_system's loop on
\* a close request naming w
ExitSystemHandles(w) ==
    /\ pc = "closing" /\ close_iter # << >> /\ Head(close_iter) = w
    /\ close_iter' # close_iter \/ close_pos' # close_pos

\* C33: the iteration of exit_on_window_close_system on a close request naming
\* the primary window sends AppExit and changes neither the registry nor the
\* renderers; the iteration on a request naming another window sends no
\* AppExit and ends with no registry entry for that window, whether or not a
\* renderer was found for it; no other step sends AppExit.
C33_AppExitOnlyForPrimary ==
    [][/\ ExitSystemHandles(PrimaryId) =>
             /\ app_exit'
             /\ frame_data' = frame_data
             /\ windows' = windows
       /\ \A w \in WindowIds \ {PrimaryId} :
             ExitSystemHandles(w) =>
                /\ app_exit' = app_exit
                /\ w \notin DOMAIN frame_data'
                /\ close_pos' = "next" => w \notin DOMAIN windows'
       /\ app_exit' # app_exit => ExitSystemHandles(PrimaryId)]_vars

\* C33 witness: AppExit was sent for the primary window, whose entry and
\* renderer are still there, and the same run then removed the entry of a
\* window for which no renderer is found
C33_Witness ==
    /\ pc = "closing" /\ close_pos = "entry_removed"
    /\ app_exit
    /\ PrimaryId \in DOMAIN frame_data /\ PrimaryId \in DOMAIN windows
    /\ Head(close_iter) # PrimaryId
    /\ ~HasVulkanoWindow(Head(close_iter))
    /\ Head(close_iter) \notin DOMAIN frame_data

\* ============================================================ SpecTargets
\* The renderer of SpecRecreate with the calls that register and remove
\* interim image targets.
MaxTargets == 2
TargetKeys == 0 .. (MaxTargets - 1)

\* the sizes a caller gives explicitly: the sizes of the swapchain creations
\* and one that is no swapchain's
ViewSizes == 0 .. NumCreations

\* DEFAULT_IMAGE_FORMAT and the swapchain's format
Formats == {"R8G8B8A8_UNORM", "B8G8R8A8_SRGB"}

\* a call of add_image_target between two frames
TargetsAdd ==
    /\ pc = "idle"
    /\ \E key \in TargetKeys, view_size \in {None} \cup {Some(z) : z \in ViewSizes},
          format \in Formats :
          windows' = [windows EXCEPT ![PrimaryId] = AddImageTarget(@, key, view_size, format)]
    /\ UNCHANGED << pc, control_flow, app_exit, window_id_to_winit, frame_data,
                    create_window_events, window_created_events, window_resized_events,
                    window_close_requested_events, systems_run, changed_window_ids,
                    close_iter, close_pos, todo, panic_msg, frameVars, obsVars, pureVars >>

\* a call of remove_image_target between two frames
TargetsRemove ==
    /\ pc = "idle"
    /\ \E key \in TargetKeys :
          windows' = [windows EXCEPT ![PrimaryId] = RemoveImageTarget(@, key)]
    /\ UNCHANGED << pc, control_flow, app_exit, window_id_to_winit, frame_data,
                    create_window_events, window_created_events, window_resized_events,
                    window_close_requested_events, systems_run, changed_window_ids,
                    close_iter, close_pos, todo, panic_msg, frameVars, obsVars, pureVars >>

NextTargets ==
    \/ TargetsAdd
    \/ TargetsRemove
    \/ RecreateResize
    \/ RecreateStartFrame
    \/ RecreateFinishFrame
    \/ RecreateSkipFrame

SpecTargets == Init /\ [][NextTargets]_vars

TargetsTypeOK ==
    /\ RecreateTypeOK
    /\ DOMAIN windows[PrimaryId].interim_image_views \subseteq TargetKeys
    /\ \A k \in DOMAIN windows[PrimaryId].interim_image_views :
          LET v == windows[PrimaryId].interim_image_views[k]
          IN  /\ v.size \in ViewSizes
              /\ v.follow_swapchain \in BOOLEAN
              /\ v.format \in Formats

\* ------------------------------------------------------------------ C34
\* the step is a start_frame call whose recreation succeeded
SwapchainRecreated ==
    /\ RecreateStartFrame
    /\ windows[PrimaryId].recreate_swapchain
    /\ started'[PrimaryId].rec = "ok"

\* C34: a successful recreation keeps the set of target keys; a target that
\* follows the swapchain is afterwards a follow-the-swapchain target of the
\* same format whose size is the new final image size, and a target
\* registered with an explicit size is as it was.
C34_FollowingTargetsResized ==
    [][SwapchainRecreated =>
          LET old == windows[PrimaryId].interim_image_views
              new == windows'[PrimaryId].interim_image_views
          IN  /\ DOMAIN new = DOMAIN old
              /\ \A k \in DOMAIN old :
                    IF old[k].follow_swapchain
                    THEN new[k] = [size |-> windows'[PrimaryId].final_views,
                                   follow_swapchain |-> TRUE,
                                   format |-> old[k].format]
                    ELSE new[k] = old[k]]_vars

\* C34 witness: after a recreation the target that follows the swapchain has
\* the size of the second creation and its own format, and the target with an
\* explicit size, which was the first creation's, is unchanged
C34_Witness ==
    /\ pc = "frame"
    /\ started[PrimaryId].rec = "ok"
    /\ windows[PrimaryId].final_views = 1
    /\ windows[PrimaryId].interim_image_views =
          MapInsert(MapInsert(EmptyMap, 0,
                [size |-> 1, follow_swapchain |-> TRUE, format |-> "B8G8R8A8_SRGB"]), 1,
                [size |-> 0, follow_swapchain |-> FALSE, format |-> "R8G8B8A8_UNORM"])

\* =========================================================== SpecEntities
\* system.rs: create_window and despawn_window on entities that gain and lose
\* their Window component.
MaxRemovals == 2

\* the lookup of a renderer by entity: entity_to_winit, then windows
GetVulkanoWindow(st, entity) ==
    IF entity \in DOMAIN st.entity_to_winit
       /\ st.entity_to_winit[entity] \in DOMAIN st.windows
    THEN Some(st.windows[st.entity_to_winit[entity]])
    ELSE None

\* the state the two systems work on
WindowsState ==
    [entity_to_winit |-> entity_to_winit, winit_to_entity |-> winit_to_entity,
     windows |-> winit_windows, native_built |-> native_built,
     created_sent |-> created_sent, closed_sent |-> closed_sent]

RECURSIVE SumOver(_, _)
SumOver(f, S) ==
    IF S = {} THEN 0
    ELSE LET x == CHOOSE y \in S : TRUE IN f[x] + SumOver(f, S \ {x})

\* winit_window_builder.build(event_loop): every native window has an id of
\* its own
FreshWinitId(st) == 1 + SumOver(st.native_built, DOMAIN st.native_built)

\* BevyVulkanoWindows::create_window: builds the native window, records it in
\* both maps and inserts its renderer
CreateWindow(st, entity) ==
    LET winit_id == FreshWinitId(st)
    IN  [st EXCEPT !.native_built[entity] = @ + 1,
                   !.entity_to_winit = MapInsert(@, entity, winit_id),
                   !.winit_to_entity = MapInsert(@, winit_id, entity),
                   !.windows = MapInsert(@, winit_id, NewRenderer)]

\* mutant of CreateWindowOne: the test for an existing window is left out
CreateWindowOneUnguarded(st, entity) ==
    [CreateWindow(st, entity) EXCEPT !.created_sent[entity] = @ + 1]

\* create_window, body of `for (entity, mut window) in created_windows`
CreateWindowOne(st, entity) ==
    IF IsSome(GetVulkanoWindow(st, entity)) THEN st
    ELSE [CreateWindow(st, entity) EXCEPT !.created_sent[entity] = @ + 1]

\* create_window, the loop
RECURSIVE CreateWindowAll(_, _)
CreateWindowAll(st, created) ==
    IF created = << >> THEN st
    ELSE CreateWindowAll(CreateWindowOne(st, Head(created)), Tail(created))

\* BevyVulkanoWindows::remove_window: the entity's native window, renderer and
\* map entries go
RemoveWindow(st, entity) ==
    IF entity \notin DOMAIN st.entity_to_winit THEN st
    ELSE LET winit_id == st.entity_to_winit[entity]
         IN  [st EXCEPT !.entity_to_winit = MapRemove(@, entity),
                        !.winit_to_entity = MapRemove(@, winit_id),
                        !.windows = MapRemove(@, winit_id)]

\* mutant of DespawnWindowOne: the guard on the Window component is left out
DespawnWindowOneUnguarded(st, window, with_window) ==
    [RemoveWindow(st, window) EXCEPT !.closed_sent[window] = @ + 1]

\* despawn_window, body of `for window in closed.iter()`; with_window is what
\* Query<&Window> matches
DespawnWindowOne(st, window, with_window) ==
    IF window \notin with_window
    THEN [RemoveWindow(st, window) EXCEPT !.closed_sent[window] = @ + 1]
    ELSE st

\* despawn_window, the loop
RECURSIVE DespawnWindowAll(_, _, _)
DespawnWindowAll(st, removed, with_window) ==
    IF removed = << >> THEN st
    ELSE DespawnWindowAll(DespawnWindowOne(st, Head(removed), with_window),
                          Tail(removed), with_window)

\* what a system leaves behind
WindowsStateBecomes(st) ==
    /\ entity_to_winit' = st.entity_to_winit
    /\ winit_to_entity' = st.winit_to_entity
    /\ winit_windows' = st.windows
    /\ native_built' = st.native_built
    /\ created_sent' = st.created_sent
    /\ closed_sent' = st.closed_sent

\* the application inserts a Window component on an entity
EntityInsertWindow ==
    /\ panic_msg = ""
    /\ \E e \in Entities \ window_entities : window_entities' = window_entities \cup {e}
    /\ UNCHANGED << removed_windows, closed, created_windows, entity_to_winit,
                    winit_to_entity, winit_windows, native_built, created_sent,
                    closed_sent, suspendVars, textureVars, ctxVars, videoVars,
                    loopVars, frameVars, obsVars >>

\* the application removes the Window component of an entity (or despawns it)
EntityRemoveWindow ==
    /\ panic_msg = ""
    /\ Len(removed_windows) + SumOver(closed_sent, Entities) < MaxRemovals
    /\ \E e \in window_entities :
          /\ window_entities' = window_entities \ {e}
          /\ removed_windows' = Append(removed_windows, e)
    /\ UNCHANGED << closed, created_windows, entity_to_winit,
                    winit_to_entity, winit_windows, native_built, created_sent,
                    closed_sent, suspendVars, textureVars, ctxVars, videoVars,
                    loopVars, frameVars, obsVars >>

\* a run of create_window on some of the entities that carry a Window; the
\* first native window that fails to build ends the program (`.unwrap()`)
CreateWindowSystem ==
    /\ panic_msg = ""
    /\ \E created \in SeqsUpTo(window_entities, MaxEntities), build_ok \in BOOLEAN :
          LET st == CreateWindowAll(WindowsState, created)
          IN  /\ created_windows' = created
              /\ IF build_ok \/ st = WindowsState
                 THEN WindowsStateBecomes(st) /\ UNCHANGED panic_msg
                 ELSE /\ WindowsStateBecomes(WindowsState)
                      /\ panic_msg' = "winit_window_builder.build: unwrap on Err"
    /\ UNCHANGED << window_entities, removed_windows, closed, suspendVars, textureVars,
                    ctxVars, videoVars, loopVarsButPanic, frameVars, obsVars >>

\* a run of despawn_window: it reads the removals not yet read
DespawnWindowSystem ==
    /\ panic_msg = ""
    /\ removed_windows # << >>
    /\ closed' = removed_windows
    /\ removed_windows' = << >>
    /\ WindowsStateBecomes(DespawnWindowAll(WindowsState, removed_windows, window_entities))
    /\ UNCHANGED << window_entities, created_windows, suspendVars, textureVars,
                    ctxVars, videoVars, loopVars, frameVars, obsVars >>

NextEntities ==
    \/ EntityInsertWindow
    \/ EntityRemoveWindow
    \/ CreateWindowSystem
    \/ DespawnWindowSystem

SpecEntities == Init /\ [][NextEntities]_vars

EntitiesTypeOK ==
    /\ window_entities \subseteq Entities
    /\ DOMAIN entity_to_winit \subseteq Entities
    /\ \A e \in DOMAIN entity_to_winit :
          /\ entity_to_winit[e] \in DOMAIN winit_windows
          /\ winit_to_entity[entity_to_winit[e]] = e
    /\ DOMAIN winit_to_entity = DOMAIN winit_windows

\* ------------------------------------------------------------------ C35
\* the step is a run of despawn_window
DespawnRuns == removed_windows # << >> /\ removed_windows' = << >>

\* the entity has a native window and renderer
HasWindow(e) == IsSome(GetVulkanoWindow(WindowsState, e))

\* C35: a run of despawn_window removes the native window and renderer of an
\* entity, or sends WindowClosed for it, only if the entity is among the
\* removals read and carries no Window component at that time; for an entity
\* whose Window component was removed and is there again, it removes nothing
\* and sends nothing; no other step removes a window or sends WindowClosed.
C35_DespawnOnlyWithoutWindowComponent ==
    [][/\ DespawnRuns =>
             \A e \in Entities :
                /\ (HasWindow(e) /\ ~HasWindow(e)') =>
                      (e \in Range(removed_windows) /\ e \notin window_entities)
                /\ closed_sent'[e] # closed_sent[e] =>
                      (e \in Range(removed_windows) /\ e \notin window_entities)
                /\ e \in window_entities =>
                      /\ closed_sent'[e] = closed_sent[e]
                      /\ HasWindow(e)' = HasWindow(e)
                      /\ e \in DOMAIN entity_to_winit =>
                            /\ e \in DOMAIN entity_to_winit'
                            /\ entity_to_winit'[e] = entity_to_winit[e]
       /\ \A e \in Entities :
             (closed_sent'[e] # closed_sent[e] \/ (HasWindow(e) /\ ~HasWindow(e)')) =>
                DespawnRuns]_vars

\* C35 witness: despawn_window read the removals of two entities; the one
\* whose Window component was back kept its window and got no WindowClosed,
\* the other lost its window and got one
C35_Witness ==
    /\ removed_windows = << >>
    /\ Len(closed) = 2
    /\ \E e \in Range(closed), g \in Range(closed) :
          /\ e \in window_entities /\ HasWindow(e) /\ closed_sent[e] = 0
          /\ native_built[e] = 1
          /\ g \notin window_entities /\ ~HasWindow(g) /\ closed_sent[g] = 1
          /\ native_built[g] = 1

\* ------------------------------------------------------------------ C36
\* the step is a run of create_window: of the steps that change the state,
\* the one that leaves the Window components and the removals alone
CreateRuns == UNCHANGED << window_entities, removed_windows, closed >> /\ panic_msg = ""

\* the winit windows recorded for the entity
WindowsOf(e) == {id \in DOMAIN winit_windows : winit_to_entity[id] = e}

WinitSuspended ==
    /\ pc = "idle" /\ control_flow = "Poll"
    /\ active' = FALSE
    /\ control_flow' = HandlerControlFlow
    /\ UNCHANGED << pc, app_exit, windows, window_id_to_winit, frame_data,
                    create_window_events, window_created_events, window_resized_events,
                    window_close_requested_events, systems_run, changed_window_ids,
                    close_iter, close_pos, todo, panic_msg, frameVars, obsVars,
                    ctxVars, videoVars, entityVars, textureVars >>

\* winit_runner_with, Event::Resumed
WinitResumed ==
    /\ pc = "idle" /\ control_flow = "Poll"
    /\ active' = TRUE
    /\ control_flow' = HandlerControlFlow
    /\ UNCHANGED << pc, app_exit, windows, window_id_to_winit, frame_data,
                    create_window_events, window_created_events, window_resized_events,
                    window_close_requested_events, systems_run, changed_window_ids,
                    close_iter, close_pos, todo, panic_msg, frameVars, obsVars,
                    ctxVars, videoVars, entityVars, textureVars >>

NextSuspend ==
    \/ WinitSuspended
    \/ WinitResumed
    \/ WinitResized
    \/ WinitCloseRequested
    \/ SendCreateWindow
    \/ MainEventsCleared
    \/ UpdateOnResizeSystem
    \/ ExitSystemBegin
    \/ ExitHandleEvent
    \/ ExitRemoveWindow
    \/ ExitSystemEnd
    \/ RenderStartStage
    \/ PreRenderSetupStep
    \/ PreRenderSetupEnd
    \/ MainRenderStep
    \/ MainRenderEnd
    \/ PostRenderStep
    \/ PostRenderEnd

SpecSuspend == Init /\ [][NextSuspend]_vars

SuspendTypeOK == TypeOK /\ active \in BOOLEAN

\* ------------------------------------------------------------------ C37
\* C37: while the runner is suspended no stage of an update runs, so no step
\* is a start_frame or finish_frame call and the registry does not change; a
\* MainEventsCleared handled while suspended starts no update but creates the
\* window of every pending CreateWindow event and sends its WindowCreated; a
\* MainEventsCleared handled while active, the first after Resumed included,
\* starts an update.
C37_NoUpdateWhileSuspended ==
    /\ [](~active => pc = "idle")
    /\ [][~active =>
             /\ started' = started /\ finished' = finished /\ in_flight' = in_flight
             /\ frame_data' = frame_data
             /\ \A w \in DOMAIN windows : w \in DOMAIN windows' /\ windows'[w] = windows[w]]_vars
    /\ [][(MainEventsCleared /\ ~active) =>
             /\ pc' = "idle"
             /\ create_window_events' = << >>
             /\ \A w \in Range(create_window_events) :
                   /\ w \in DOMAIN windows' /\ w \in window_id_to_winit'
                   /\ w \in Range(window_created_events')]_vars
    /\ [][(MainEventsCleared /\ active) => pc' = "preupdate"]_vars

\* C37 witness: frames had been presented, the runner is suspended, and a
\* MainEventsCleared handled since then created the secondary window, whose
\* WindowCreated no update has read
C37_Witness ==
    /\ ~active /\ pc = "idle"
    /\ PrimaryId \in DOMAIN frame_data
    /\ windows[PrimaryId].previous_frame_end = Some(PresentFuture(TRUE))
    /\ create_window_events = << >>
    /\ \E w \in WindowIds \ {PrimaryId} :
          w \in DOMAIN windows /\ w \in Range(window_created_events)

\* =========================================================== SpecTextures
\* Renderer::create_image_texture_id and the calls that fill image_textures,
\* made by callers on different threads. A renderer is borrowed mutably for
\* the length of a call, so two calls overlap only on different renderers; the
\* counter is one static shared by all of them.

\* `id as u32` on a usize: the low 32 bits, computed in two 16-bit halves
U16Modulus == 65536
AsU32(n) == ((n \div U16Modulus) % U16Modulus) * U16Modulus + (n % U16Modulus)

\* the ids a caller can build: ImageTextureId(pub u32)
TextureIds == 1 .. MaxIds

\* mutant of CreateImageTextureId: the counter is read and not advanced
CreateImageTextureIdLoadOnly(counter) ==
    [id |-> AsU32(counter), counter |-> counter]

\* create_image_texture_id: COUNTER.fetch_add(1, Ordering::Relaxed), one
\* atomic read-modify-write; [id, counter]
CreateImageTextureId(counter) ==
    [id |-> AsU32(counter), counter |-> counter + 1]

\* add_image_texture: self.image_textures.insert(key, texture)
AddImageTexture(textures, key, texture) == MapInsert(textures, key, texture)

\* no call of another caller is under way on renderer r
NotBorrowed(r, c) ==
    \A d \in Callers \ {c} : caller[d].at = "idle" \/ caller[d].renderer # r

\* add_texture_from_image_view / add_texture_from_file_bytes up to and
\* including `let new_id = Self::create_image_texture_id();`; loading the file
\* can fail, which ends the program before an id is made
TextureCreateId ==
    /\ panic_msg = ""
    /\ Len(handed_out) < MaxIds
    /\ \E c \in Callers, r \in RendererIds, file_ok \in BOOLEAN :
          /\ caller[c].at = "idle" /\ NotBorrowed(r, c)
          /\ IF file_ok
             THEN LET n == CreateImageTextureId(COUNTER)
                  IN  /\ COUNTER' = n.counter
                      /\ handed_out' = Append(handed_out, n.id)
                      /\ caller' = [caller EXCEPT ![c] =
                                       [at |-> "has_id", renderer |-> r, new_id |-> n.id]]
                      /\ UNCHANGED panic_msg
             ELSE /\ panic_msg' = "texture_from_file: unwrap on Err"
                  /\ UNCHANGED << COUNTER, handed_out, caller >>
    /\ UNCHANGED << image_textures, overwritten, suspendVars, entityVars, ctxVars,
                    videoVars, loopVarsButPanic, frameVars, obsVars >>

\* the rest of the add call: self.add_image_texture(new_id, image_view); new_id
TextureAdd ==
    /\ panic_msg = ""
    /\ \E c \in Callers :
          /\ caller[c].at = "has_id"
          /\ LET r == caller[c].renderer
                 key == caller[c].new_id
                 texture == [origin |-> "add", forged |-> FALSE]
             IN  /\ image_textures' = [image_textures EXCEPT ![r] =
                                          AddImageTexture(@, key, texture)]
                 /\ overwritten' =
                       IF key \in DOMAIN image_textures[r]
                       THEN overwritten \cup {[renderer |-> r, key |-> key,
                                               texture |-> image_textures[r][key]]}
                       ELSE overwritten
          /\ caller' = [caller EXCEPT ![c] = [at |-> "idle", renderer |-> 0, new_id |-> 0]]
    /\ UNCHANGED << COUNTER, handed_out, suspendVars, entityVars, ctxVars,
                    videoVars, loopVars, frameVars, obsVars >>

\* update_texture_from_image_view(image_view, texture_id) with any id; the
\* texture remembers whether the id had been handed out
TextureUpdate ==
    /\ panic_msg = ""
    /\ \E c \in Callers, r \in RendererIds, texture_id \in TextureIds :
          /\ caller[c].at = "idle" /\ NotBorrowed(r, c)
          /\ image_textures' = [image_textures EXCEPT ![r] =
                AddImageTexture(@, texture_id,
                    [origin |-> "update", forged |-> texture_id \notin Range(handed_out)])]
    /\ UNCHANGED << COUNTER, caller, handed_out, overwritten, suspendVars, entityVars,
                    ctxVars, videoVars, loopVars, frameVars, obsVars >>

NextTextures ==
    \/ TextureCreateId
    \/ TextureAdd
    \/ TextureUpdate

SpecTextures == Init /\ [][NextTextures]_vars

TexturesTypeOK ==
    /\ COUNTER \in 1 .. (MaxIds + 1)
    /\ \A r \in RendererIds : DOMAIN image_textures[r] \subseteq TextureIds
    /\ \A c \in Callers : caller[c].at \in {"idle", "has_id"}
    /\ \A c \in Callers, d \in Callers :
          (c # d /\ caller[c].at = "has_id" /\ caller[d].at = "has_id") =>
             caller[c].renderer # caller[d].renderer

\* ------------------------------------------------------------------ C38
\* no value occurs twice in the sequence
PairwiseDistinct(seq) ==
    \A i \in 1 .. Len(seq), j \in 1 .. Len(seq) : i # j => seq[i] # seq[j]

\* the entries of image_textures the step adds or replaces
ChangedEntries ==
    { rk \in RendererIds \X TextureIds :
         LET before == image_textures[rk[1]]
             after == image_textures'[rk[1]]
         IN  \/ (rk[2] \in DOMAIN before) # (rk[2] \in DOMAIN after)
             \/ /\ rk[2] \in DOMAIN before /\ rk[2] \in DOMAIN after
                /\ before[rk[2]] # after[rk[2]] }

\* the step replaces an entry that was there
ReplacesEntry ==
    \E rk \in ChangedEntries : rk[2] \in DOMAIN image_textures[rk[1]]

\* the step is the insertion that ends an add call
AddInserts == \E c \in Callers : caller[c].at = "has_id" /\ caller'[c].at = "idle"

====
